---- MODULE Spec2Model ----
(***************************************************************************)
(* ctfsh: the persistent store (users, teams, challenges, submissions),    *)
(* its typed queries (internal/db) and the per-connection UI sessions      *)
(* (internal/ui) that call them.                                           *)
(***************************************************************************)
EXTENDS Integers, Sequences, FiniteSets, TLC

(***************************************************************************)
(* Bounds of the model and the small input sets.                           *)
(***************************************************************************)
MaxSubs == 2
MaxTeams == 2
MaxManifests == 3
MaxQuery == 2

Sessions == {"s1", "s2"}
Callers == {"a", "b"}
Keys == {"K1", "K2"}
UserNames == {"alice", "bob"}
TeamNames == {"red", "blue"}
Codes == {"c1", "c2"}

\* byte order of the names the model uses (SQL BINARY collation, Go string <)
NameOrder == <<"alice", "blue", "bob", "red">>

NameRank(n) == CHOOSE i \in 1..Len(NameOrder) : NameOrder[i] = n

(***************************************************************************)
(* The catalog: loaded once at startup, immutable during a run.            *)
(***************************************************************************)
DefaultPoints == 500

Challenges ==
    { [id |-> 1, name |-> "easy", points |-> 100, flag |-> <<"f", " ">>,
       category |-> "misc"],
      [id |-> 2, name |-> "web", points |-> DefaultPoints, flag |-> <<"g">>,
       category |-> "web"] }

ChalIds == {c.id : c \in Challenges}

ChalById(id) == CHOOSE c \in Challenges : c.id = id

\* GetChallenges(): the name-keyed map; only its key set is used here
GetChallenges == {c.name : c \in Challenges}

\* flags a user may type into the flag input
FlagInputs == { <<" ", "f">>, <<"g">> }

(***************************************************************************)
(* strings.TrimSpace on a string held as a sequence of characters.         *)
(***************************************************************************)
IsSpace(ch) == ch \in {" ", "\t", "\n"}

RECURSIVE TrimLeft(_)
TrimLeft(s) ==
    IF s = <<>> THEN <<>>
    ELSE IF IsSpace(Head(s)) THEN TrimLeft(Tail(s)) ELSE s

RECURSIVE TrimRight(_)
TrimRight(s) ==
    IF s = <<>> THEN <<>>
    ELSE IF IsSpace(s[Len(s)]) THEN TrimRight(SubSeq(s, 1, Len(s) - 1)) ELSE s

TrimSpace(s) == TrimRight(TrimLeft(s))

(***************************************************************************)
(* State.                                                                  *)
(*   users        users table, row id = index (AUTOINCREMENT, no deletes); *)
(*                team_id 0 is NULL                                        *)
(*   teams        teams table, a set of rows                               *)
(*   teamSeq      last id the teams table handed out (ids are not reused)  *)
(*   submissions  submissions table in insertion order                     *)
(*   calls        the db.SubmitFlag call of each caller (a connection's    *)
(*                goroutine): its arguments, where it stands (pc) and      *)
(*                what it returned (ret: "true", "false", "already" for    *)
(*                the already-solved error)                                *)
(*   regen        the last RegenerateTeamJoinCode call that returned without *)
(*                an error: its team id, the code the row had (old, ""     *)
(*                when the id has no row) and the code it returned (new)   *)
(*   sess         one UI model per connection: the view it shows, the      *)
(*                user and TeamID it caches (m.user), the public key of    *)
(*                the connection and the join hint                         *)
(*   reg          the createUser call of each session in the auth view:    *)
(*                where it stands (pc), the username it was given (n) and  *)
(*                what it returned (msg: "ok", or the error "empty",       *)
(*                "taken", or "failed" for failed to create user)          *)
(*   inst         per connection, its context (the containerName value and *)
(*                Done) and its HandleInstanceRequest call: where the      *)
(*                handler stands (h), the StartChallenge goroutine (start),*)
(*                readyChan (ready) and the stopContainer goroutine (stop) *)
(*   tun          per connection, its DirectTCPChannelHandler call         *)
(*   incus        the container runtime: instances, image aliases, network,*)
(*                the builder instance <name>-builder of each challenge,   *)
(*                and how many builder instances it has created (builds)   *)
(*   boot         main(): where it stands, and its CreateChallengeImage    *)
(*                goroutines                                               *)
(*   tx           the db.CreateAndJoinTeam call that runs statement by     *)
(*                statement: its arguments, the id its INSERT got, where   *)
(*                it stands (pc) and what it returned (ret)                *)
(*   req          the last request the SFTP handlers served: its method,   *)
(*                the path the client sent (raw), the host path the        *)
(*                handler opened and what it returned                      *)
(***************************************************************************)
VARIABLES users, teams, teamSeq, submissions, calls, regen, sess,
          reg, inst, tun, incus, boot, tx, req

vars == <<users, teams, teamSeq, submissions, calls, regen, sess,
          reg, inst, tun, incus, boot, tx, req>>

store == <<users, teams, teamSeq, submissions>>

NoTeam == [id |-> 0, name |-> "", join_code |-> ""]

NoRegen == [team |-> 0, old |-> "", new |-> ""]

NoCall == [pc |-> "idle", u |-> 0, c |-> 0, f |-> <<>>, ret |-> "none"]

Closed ==
    [view |-> "closed", key |-> "", user |-> 0, team |-> 0, hint |-> NoTeam]

NoReg == [pc |-> "idle", n |-> "", msg |-> "none"]

NoTx == [pc |-> "idle", u |-> 0, name |-> "", code |-> "", id |-> 0, ret |-> "none"]

NoReq == [method |-> "", raw |-> <<>>, opened |-> <<>>, ret |-> "none"]

\* a container name: the challenge and util.RandHex(6)
HexDraws == {"0a", "0b"}

NoName == [chal |-> "", hex |-> ""]

NoInst ==
    [h |-> "idle", user |-> 0, chal |-> "", containerName |-> NoName,
     ctxName |-> NoName, ctxDone |-> FALSE, ready |-> FALSE,
     start |-> "none", stop |-> "none", stopName |-> NoName]

NoTun ==
    [pc |-> "idle", dest |-> "", name |-> NoName, accepted |-> FALSE,
     rejected |-> FALSE, dialed |-> FALSE, chanOpen |-> FALSE,
     targetOpen |-> FALSE, chanEOF |-> FALSE, targetEOF |-> FALSE,
     up |-> "none", down |-> "none", done |-> 0, host |-> NoName]

\* instance.ports of the catalog's challenges: web has a port, easy has none
Ports == [n \in GetChallenges |-> IF n = "web" THEN <<8000>> ELSE <<>>]

Alias(n) == <<"ctfsh", n>>

\* the runtime once main() has built the images: the state a connection finds
Built ==
    [insts |-> [n \in {[chal |-> c, hex |-> x] : c \in GetChallenges, x \in HexDraws}
                  |-> "absent"],
     images |-> {Alias(n) : n \in {c \in GetChallenges : Ports[c] # <<>>}},
     net |-> TRUE,
     builders |-> [n \in GetChallenges |-> "absent"],
     builds |-> [n \in GetChallenges |-> 0]]

\* main() at s.ListenAndServe(): the loop over the catalog is through, and
\* the goroutine of every challenge with ports has returned
Listening ==
    [pc |-> "listen", todo |-> {}, ports |-> Ports,
     task |-> [n \in GetChallenges |-> IF Ports[n] # <<>> THEN "done" ELSE "none"]]

Init ==
    /\ users = <<>>
    /\ teams = {}
    /\ teamSeq = 0
    /\ submissions = <<>>
    /\ calls = [a \in Callers |-> NoCall]
    /\ regen = NoRegen
    /\ sess = [s \in Sessions |-> Closed]
    /\ reg = [s \in Sessions |-> NoReg]
    /\ inst = [s \in Sessions |-> NoInst]
    /\ tun = [s \in Sessions |-> NoTun]
    /\ incus = Built
    /\ boot = Listening
    /\ tx = NoTx
    /\ req = NoReq

UserIds == 1..Len(users)

Range(f) == {f[i] : i \in DOMAIN f}


(***************************************************************************)
(* internal/db: queries.                                                   *)
(***************************************************************************)
\* GetUserBySSHKey: the id of the user row with that key, 0 when no row
GetUserBySSHKey(k) ==
    IF \E i \in UserIds : users[i].ssh_key = k
    THEN CHOOSE i \in UserIds : users[i].ssh_key = k
    ELSE 0

\* GetUserByUsername: the id of the user row with that name, 0 when no row
GetUserByUsername(n) ==
    IF \E i \in UserIds : users[i].username = n
    THEN CHOOSE i \in UserIds : users[i].username = n
    ELSE 0

\* GetTeamByJoinCode: the team row with that join code (id, name, code), NoTeam
\* when the query returns no row
GetTeamByJoinCode(code) ==
    IF \E t \in teams : t.join_code = code
    THEN LET t == CHOOSE t \in teams : t.join_code = code
         IN [id |-> t.id, name |-> t.name, join_code |-> t.join_code]
    ELSE NoTeam

\* SELECT id FROM teams WHERE name = ?  (0 when no row)
TeamIdByName(n) ==
    IF \E t \in teams : t.name = n
    THEN (CHOOSE t \in teams : t.name = n).id
    ELSE 0

TeamIds == {t.id : t \in teams}

\* CountTeamMembers: SELECT COUNT(*) FROM users WHERE team_id = ?
CountTeamMembers(teamID) ==
    Cardinality({i \in UserIds : users[i].team_id = teamID})

\* GetChallengesSolvedByUser: SELECT DISTINCT challenge_id ... correct = 1
GetChallengesSolvedByUser(u) ==
    {r.challenge_id : r \in {x \in Range(submissions) : x.user_id = u /\ x.correct}}

(***************************************************************************)
(* SubmitFlag (internal/db/submission.go).                                 *)
(***************************************************************************)
\* the comparison without the two TrimSpace calls
FlagCorrectExact(c, flag) == flag = ChalById(c).flag

\* line 25: correct := TrimSpace(flag) == TrimSpace(correctFlag)
FlagCorrect(c, flag) == TrimSpace(flag) = TrimSpace(ChalById(c).flag)

\* the pre-check left out
AlreadySolvedNever(u, c) == FALSE

\* lines 27-29: EXISTS(SELECT 1 FROM submissions WHERE user_id = ? AND
\* challenge_id = ? AND correct = 1)
AlreadySolved(u, c) ==
    \E i \in DOMAIN submissions :
        /\ submissions[i].user_id = u
        /\ submissions[i].challenge_id = c
        /\ submissions[i].correct

\* line 38: the row INSERT INTO submissions adds
SubmissionRow(u, c, flag, correct) ==
    [user_id |-> u, challenge_id |-> c, flag |-> flag, correct |-> correct]

\* number of rows with user = u, challenge = c, correct = true
CorrectCount(u, c) ==
    Cardinality({i \in DOMAIN submissions :
        /\ submissions[i].user_id = u
        /\ submissions[i].challenge_id = c
        /\ submissions[i].correct})

\* what SubmitFlag returns once the pre-check has passed (line 41)
SubmitRet(c, f) == IF FlagCorrect(c, f) THEN "true" ELSE "false"

\* inserts still to come: calls between their pre-check and their INSERT
Pending == {a \in Callers : calls[a].pc = "insert"}

\* db.SubmitFlag(u, c, f) by caller a, the whole call as one step
SubmitFlag(a, u, c, f) ==
    /\ calls[a].pc # "insert"
    /\ IF AlreadySolved(u, c)
       THEN /\ calls' = [calls EXCEPT ![a] =
                   [pc |-> "done", u |-> u, c |-> c, f |-> f, ret |-> "already"]]
            /\ UNCHANGED submissions
       ELSE /\ Len(submissions) + Cardinality(Pending) < MaxSubs
            /\ submissions' =
                   Append(submissions, SubmissionRow(u, c, f, FlagCorrect(c, f)))
            /\ calls' = [calls EXCEPT ![a] =
                   [pc |-> "done", u |-> u, c |-> c, f |-> f, ret |-> SubmitRet(c, f)]]
    /\ UNCHANGED <<users, teams, teamSeq, regen, sess>>
    /\ UNCHANGED <<reg, inst, tun, incus, boot, tx, req>>

\* db.SubmitFlag lines 19-36 as a step of its own: the flag comparison and
\* the already-solved query, after which other calls may run
SubmitFlagCheck(a, u, c, f) ==
    /\ calls[a].pc # "insert"
    /\ IF AlreadySolved(u, c)
       THEN calls' = [calls EXCEPT ![a] =
                [pc |-> "done", u |-> u, c |-> c, f |-> f, ret |-> "already"]]
       ELSE /\ Len(submissions) + Cardinality(Pending) < MaxSubs
            /\ calls' = [calls EXCEPT ![a] =
                   [pc |-> "insert", u |-> u, c |-> c, f |-> f, ret |-> "none"]]
    /\ UNCHANGED <<store, regen, sess>>
    /\ UNCHANGED <<reg, inst, tun, incus, boot, tx, req>>

\* db.SubmitFlag lines 38-41: the INSERT and the return
SubmitFlagInsert(a) ==
    /\ calls[a].pc = "insert"
    /\ LET k == calls[a]
       IN /\ submissions' = Append(submissions,
                 SubmissionRow(k.u, k.c, k.f, FlagCorrect(k.c, k.f)))
          /\ calls' = [calls EXCEPT ![a].pc = "done", ![a].ret = SubmitRet(k.c, k.f)]
    /\ UNCHANGED <<users, teams, teamSeq, regen, sess>>
    /\ UNCHANGED <<reg, inst, tun, incus, boot, tx, req>>

\* GetTeamChallengeSolvers(teamID): the maps the query can give.  The rows
\* of the join (correct rows of the users whose team_id is teamID) are
\* grouped by challenge_id; u.username is a bare column of the aggregate
\* query, so SQLite takes it from a row of the group of its choice, and
\* ORDER BY s.timestamp orders the groups, not the rows inside one
GetTeamChallengeSolvers(teamID) ==
    LET rows == {i \in DOMAIN submissions :
                    /\ submissions[i].correct
                    /\ users[submissions[i].user_id].team_id = teamID}
        group(c) == {i \in rows : submissions[i].challenge_id = c}
        solved == {c \in ChalIds : group(c) # {}}
    IN {m \in [solved -> UserNames] :
           \A c \in solved :
               \E i \in group(c) : m[c] = users[submissions[i].user_id].username}

(***************************************************************************)
(* Users and teams (internal/db/user.go, team.go; createUser of the UI).   *)
(***************************************************************************)
NameInputs == UserNames \cup {"", "easy"}

TeamNameInputs == TeamNames \cup {""}

MatchesChallengeNever(n) == FALSE

\* createUser: _, matchesChallenge := db.GetChallenges()[username]
MatchesChallenge(n) == n \in GetChallenges

CreateUserCheckedNever(n, k) == FALSE

\* createUser's checks before db.CreateUser: some check returns an error
CreateUserChecked(n, k) ==
    \/ n = ""
    \/ k = ""
    \/ GetUserByUsername(n) # 0
    \/ MatchesChallenge(n)

InsertUserFailsNever(n, k) == FALSE

\* db.CreateUser's INSERT fails: username UNIQUE or ssh_key UNIQUE
InsertUserFails(n, k) ==
    \/ \E i \in UserIds : users[i].username = n
    \/ \E i \in UserIds : users[i].ssh_key = k

\* createUser returns an error: a check of its own, or the failed INSERT
CreateUserRefused(n, k) ==
    CreateUserChecked(n, k) \/ InsertUserFails(n, k)

InsertUserTwice(n, k) ==
    Append(Append(users, [username |-> n, ssh_key |-> k, team_id |-> 0]),
           [username |-> n, ssh_key |-> k, team_id |-> 0])

\* the users table after INSERT INTO users (username, ssh_key)
InsertUser(n, k) == Append(users, [username |-> n, ssh_key |-> k, team_id |-> 0])

\* JoinTeam's UPDATE users SET team_id = ? WHERE id = ?
JoinTeam(u, teamID) == [users EXCEPT ![u].team_id = teamID]

\* LeaveTeam: UPDATE users SET team_id = NULL WHERE id = ?
LeaveTeam(u) == [users EXCEPT ![u].team_id = 0]

\* DeleteTeam: DELETE FROM teams WHERE id = ?
DeleteTeam(teamID) == {t \in teams : t.id # teamID}

\* SELECT join_code FROM teams WHERE id = ?  ("" when no row)
JoinCodeOf(teamID) ==
    IF teamID \in TeamIds
    THEN (CHOOSE t \in teams : t.id = teamID).join_code
    ELSE ""

\* UNIQUE(join_code): a row other than teamID already holds the code
JoinCodeTaken(teamID, code) ==
    \E t \in teams : t.id # teamID /\ t.join_code = code

\* UPDATE teams SET join_code = ? WHERE id = ?
SetJoinCode(teamID, code) ==
    {IF t.id = teamID THEN [t EXCEPT !.join_code = code] ELSE t : t \in teams}

\* the INSERT of CreateAndJoinTeam fails: UNIQUE(name) or UNIQUE(join_code)
CreateTeamRefused(name, code) ==
    TeamIdByName(name) # 0 \/ JoinCodeTaken(0, code)

\* the teams table after INSERT INTO teams (name, join_code)
InsertTeam(name, code) ==
    teams \cup {[id |-> teamSeq + 1, name |-> name, join_code |-> code]}

\* createUser(username, sshKey): the checks, then db.CreateUser
CreateUser(n, k) ==
    /\ ~CreateUserRefused(n, k)
    /\ users' = InsertUser(n, k)
    /\ UNCHANGED <<teams, teamSeq, submissions, calls, regen, sess>>
    /\ UNCHANGED <<reg, inst, tun, incus, boot, tx, req>>

\* db.CreateAndJoinTeam(creatorID, teamName) in its transaction, code being
\* GenerateJoinCode's draw; a failed INSERT rolls back and changes nothing
CreateAndJoinTeam(u, name, code) ==
    /\ ~CreateTeamRefused(name, code)
    /\ teamSeq < MaxTeams
    /\ teams' = InsertTeam(name, code)
    /\ teamSeq' = teamSeq + 1
    /\ users' = JoinTeam(u, teamSeq + 1)
    /\ UNCHANGED <<submissions, calls, regen, sess>>
    /\ UNCHANGED <<reg, inst, tun, incus, boot, tx, req>>

RollbackKeepsInsert(t) == <<users, InsertTeam(t.name, t.code), teamSeq + 1>>

\* the deferred tx.Rollback() of a call that returns an error: the tables as
\* they were, the INSERT of the transaction undone with its id
Rollback(t) == <<users, teams, teamSeq>>

\* db.CreateAndJoinTeam(creatorID, teamName) statement by statement, code
\* being GenerateJoinCode's draw and ok whether the statement at hand runs
\* without an error of the database (I/O, lock).  db.Begin; the INSERT, which
\* fails on UNIQUE(name) and UNIQUE(join_code); the UPDATE of the creator's
\* row; tx.Commit, which makes both writes visible at once.  A return with
\* an error runs the deferred tx.Rollback().
CreateAndJoinTeamTx(u, name, code, ok) ==
    LET fail == /\ tx' = [tx EXCEPT !.pc = "done", !.ret = "error"]
                /\ users' = Rollback(tx)[1]
                /\ teams' = Rollback(tx)[2]
                /\ teamSeq' = Rollback(tx)[3]
    IN /\ \/ /\ tx.pc \in {"idle", "done"}
             /\ teamSeq < MaxTeams
             /\ tx' = IF ok
                      THEN [pc |-> "insert", u |-> u, name |-> name, code |-> code,
                            id |-> 0, ret |-> "none"]
                      ELSE [pc |-> "done", u |-> u, name |-> name, code |-> code,
                            id |-> 0, ret |-> "error"]
             /\ UNCHANGED <<users, teams, teamSeq>>
          \/ /\ tx.pc = "insert"
             /\ IF ok /\ ~CreateTeamRefused(tx.name, tx.code)
                THEN /\ tx' = [tx EXCEPT !.pc = "update", !.id = teamSeq + 1]
                     /\ UNCHANGED <<users, teams, teamSeq>>
                ELSE fail
          \/ /\ tx.pc = "update"
             /\ IF ok
                THEN /\ tx' = [tx EXCEPT !.pc = "commit"]
                     /\ UNCHANGED <<users, teams, teamSeq>>
                ELSE fail
          \/ /\ tx.pc = "commit"
             /\ IF ok
                THEN /\ teams' = InsertTeam(tx.name, tx.code)
                     /\ teamSeq' = tx.id
                     /\ users' = JoinTeam(tx.u, tx.id)
                     /\ tx' = [tx EXCEPT !.pc = "done", !.ret = "ok"]
                ELSE fail
       /\ UNCHANGED <<submissions, calls, regen, sess>>
       /\ UNCHANGED <<reg, inst, tun, incus, boot, req>>

\* the transaction holds the database's write lock from its INSERT to its
\* end: no other call writes in between
WriteLocked == tx.pc \in {"update", "commit"}

\* db.JoinTeam(userID, teamName): the team is looked up by name
JoinTeamCall(u, name) ==
    /\ TeamIdByName(name) # 0
    /\ users' = JoinTeam(u, TeamIdByName(name))
    /\ UNCHANGED <<teams, teamSeq, submissions, calls, regen, sess>>
    /\ UNCHANGED <<reg, inst, tun, incus, boot, tx, req>>

\* db.LeaveTeam(userID)
LeaveTeamCall(u) ==
    /\ users' = LeaveTeam(u)
    /\ UNCHANGED <<teams, teamSeq, submissions, calls, regen, sess>>
    /\ UNCHANGED <<reg, inst, tun, incus, boot, tx, req>>

\* db.DeleteTeam(teamID); the id is the caller's cached m.user.TeamID, so any
\* id the table has handed out
DeleteTeamCall(teamID) ==
    /\ teams' = DeleteTeam(teamID)
    /\ UNCHANGED <<users, teamSeq, submissions, calls, regen, sess>>
    /\ UNCHANGED <<reg, inst, tun, incus, boot, tx, req>>

\* db.RegenerateTeamJoinCode(teamID), code being GenerateJoinCode's draw; the
\* UPDATE fails on UNIQUE(join_code) and succeeds on an id that has no row
RegenerateTeamJoinCode(teamID, code) ==
    /\ ~JoinCodeTaken(teamID, code)
    /\ teams' = SetJoinCode(teamID, code)
    /\ regen' = [team |-> teamID, old |-> JoinCodeOf(teamID), new |-> code]
    /\ UNCHANGED <<users, teamSeq, submissions, calls, sess>>
    /\ UNCHANGED <<reg, inst, tun, incus, boot, tx, req>>

(***************************************************************************)
(* GetScoreboard (internal/db/scoreboard.go).                              *)
(***************************************************************************)
RECURSIVE SumPoints(_)
SumPoints(cs) ==
    IF cs = {} THEN 0
    ELSE LET c == CHOOSE x \in cs : TRUE
         IN ChalById(c).points + SumPoints(cs \ {c})

\* the subquery solved_challs: SELECT user_id, challenge_id FROM submissions
\* WHERE correct = 1 GROUP BY user_id, challenge_id, restricted to one user
SolvedChalls(u) ==
    {c \in ChalIds : \E i \in DOMAIN submissions :
        /\ submissions[i].user_id = u
        /\ submissions[i].challenge_id = c
        /\ submissions[i].correct}

\* SUM(c.points) over the correct rows of u, without the GROUP BY of the
\* subquery
UserScoreNoGroupBy(u) ==
    LET rows == {i \in DOMAIN submissions :
                    submissions[i].user_id = u /\ submissions[i].correct}
        sum[is \in SUBSET rows] ==
            IF is = {} THEN 0
            ELSE LET i == CHOOSE x \in is : TRUE
                 IN ChalById(submissions[i].challenge_id).points + sum[is \ {i}]
    IN sum[rows]

\* SUM(c.points) over the rows of the join that belong to user u
UserScore(u) == SumPoints(SolvedChalls(u))

RECURSIVE SumScores(_)
SumScores(us) ==
    IF us = {} THEN 0
    ELSE LET u == CHOOSE x \in us : TRUE
         IN UserScore(u) + SumScores(us \ {u})

\* the join rows of user u: one per solved challenge, one with NULLs if none
JoinRows(u) == IF SolvedChalls(u) = {} THEN 1 ELSE Cardinality(SolvedChalls(u))

RECURSIVE SumJoinRows(_)
SumJoinRows(us) ==
    IF us = {} THEN 0
    ELSE LET u == CHOOSE x \in us : TRUE
         IN JoinRows(u) + SumJoinRows(us \ {u})

\* LEFT JOIN users u ON t.id = u.team_id
TeamMembers(teamID) == {u \in UserIds : users[u].team_id = teamID}

\* first query, one row per team: id, name, SUM(c.points), COUNT(u.id)
TeamEntry(t) ==
    [id |-> t.id, name |-> t.name, score |-> SumScores(TeamMembers(t.id)),
     playerCount |-> SumJoinRows(TeamMembers(t.id))]

\* solo rows taken for every user
SoloUsersAll == UserIds

\* WHERE u.team_id IS NULL
SoloUsers == {u \in UserIds : users[u].team_id = 0}

\* second query, one row per solo user, appended with the negated id
SoloEntry(u) ==
    [id |-> 0 - u, name |-> users[u].username, score |-> UserScore(u),
     playerCount |-> 1]

\* ORDER BY score DESC, name ASC
Before(x, y) ==
    \/ x.score > y.score
    \/ x.score = y.score /\ NameRank(x.name) < NameRank(y.name)

RECURSIVE SortEntries(_)
SortEntries(S) ==
    IF S = {} THEN <<>>
    ELSE LET f == CHOOSE x \in S : \A y \in S \ {x} : Before(x, y)
         IN <<f>> \o SortEntries(S \ {f})

\* GetScoreboard: the team rows in their order, then the solo rows in theirs
GetScoreboard ==
    SortEntries({TeamEntry(t) : t \in teams})
        \o SortEntries({SoloEntry(u) : u \in SoloUsers})

\* GetUserScoreTimeSeries without the seenChallenges map: every correct row
\* of the user adds its points
GetUserScoreTimeSeriesNoSeen(userID) ==
    LET RECURSIVE scan(_, _)
        scan(i, cumulative) ==
            IF i > Len(submissions) THEN <<>>
            ELSE LET s == submissions[i]
                 IN IF ~(s.correct /\ s.user_id = userID /\ s.challenge_id \in ChalIds)
                    THEN scan(i + 1, cumulative)
                    ELSE LET c == cumulative + ChalById(s.challenge_id).points
                         IN <<[Time |-> i, Score |-> c]>> \o scan(i + 1, c)
    IN scan(1, 0)

\* GetTeamScoreTimeSeries(teamID): the correct rows of the users whose
\* team_id is teamID, joined with their challenge, in the order of their
\* timestamps (the order of the rows); a row whose [user_id, challenge_id]
\* was seen is skipped, every other row adds its points to cumulative and
\* appends one ScorePoint.  Time is the position of the row.
GetTeamScoreTimeSeries(teamID) ==
    LET RECURSIVE scan(_, _, _)
        scan(i, seen, cumulative) ==
            IF i > Len(submissions) THEN <<>>
            ELSE LET s == submissions[i]
                     key == <<s.user_id, s.challenge_id>>
                 IN IF ~(/\ s.correct
                         /\ s.user_id \in UserIds
                         /\ users[s.user_id].team_id = teamID
                         /\ s.challenge_id \in ChalIds)
                    THEN scan(i + 1, seen, cumulative)
                    ELSE IF key \in seen
                    THEN scan(i + 1, seen, cumulative)
                    ELSE LET c == cumulative + ChalById(s.challenge_id).points
                         IN <<[Time |-> i, Score |-> c]>>
                                \o scan(i + 1, seen \cup {key}, c)
    IN scan(1, {}, 0)

\* GetUserScoreTimeSeries(userID): the same walk over the correct rows of
\* one user, de-duplicated by challenge_id
GetUserScoreTimeSeries(userID) ==
    LET RECURSIVE scan(_, _, _)
        scan(i, seenChallenges, cumulative) ==
            IF i > Len(submissions) THEN <<>>
            ELSE LET s == submissions[i]
                 IN IF ~(s.correct /\ s.user_id = userID /\ s.challenge_id \in ChalIds)
                    THEN scan(i + 1, seenChallenges, cumulative)
                    ELSE IF s.challenge_id \in seenChallenges
                    THEN scan(i + 1, seenChallenges, cumulative)
                    ELSE LET c == cumulative + ChalById(s.challenge_id).points
                         IN <<[Time |-> i, Score |-> c]>>
                                \o scan(i + 1, seenChallenges \cup {s.challenge_id}, c)
    IN scan(1, {}, 0)

(***************************************************************************)
(* Specifications of the store.  Spec runs the db calls behind the         *)
(* scoreboard as one step each, in any order and with any arguments their  *)
(* callers can hold, the calls of db.SubmitFlag one after the other.       *)
(* SpecConc runs db.SubmitFlag as its two statements, so that the calls of *)
(* two connections interleave between the pre-check and the INSERT.        *)
(* SpecTeams runs the calls on users and teams, join codes included.       *)
(***************************************************************************)
Next ==
    \/ \E n \in NameInputs, k \in Keys : CreateUser(n, k)
    \/ \E u \in UserIds, n \in TeamNames, code \in Codes : CreateAndJoinTeam(u, n, code)
    \/ \E u \in UserIds, n \in TeamNames : JoinTeamCall(u, n)
    \/ \E u \in UserIds : LeaveTeamCall(u)
    \/ \E t \in 1..teamSeq : DeleteTeamCall(t)
    \/ \E u \in UserIds, c \in ChalIds, f \in FlagInputs : SubmitFlag("a", u, c, f)

Spec == Init /\ [][Next]_vars

NextConc ==
    \/ \E n \in NameInputs, k \in Keys : CreateUser(n, k)
    \/ \E u \in UserIds, n \in TeamNames, code \in Codes : CreateAndJoinTeam(u, n, code)
    \/ \E u \in UserIds, n \in TeamNames : JoinTeamCall(u, n)
    \/ \E u \in UserIds : LeaveTeamCall(u)
    \/ \E a \in Callers, u \in UserIds, c \in ChalIds, f \in FlagInputs :
           SubmitFlagCheck(a, u, c, f)
    \/ \E a \in Callers : SubmitFlagInsert(a)

SpecConc == Init /\ [][NextConc]_vars

NextTeams ==
    \/ \E n \in NameInputs, k \in Keys : CreateUser(n, k)
    \/ \E u \in UserIds, n \in TeamNames, code \in Codes : CreateAndJoinTeam(u, n, code)
    \/ \E u \in UserIds, n \in TeamNames : JoinTeamCall(u, n)
    \/ \E u \in UserIds : LeaveTeamCall(u)
    \/ \E t \in 1..teamSeq : DeleteTeamCall(t)
    \/ \E t \in 1..teamSeq, code \in Codes : RegenerateTeamJoinCode(t, code)

SpecTeams == Init /\ [][NextTeams]_vars

\* one db.CreateAndJoinTeam call at a time, statement by statement, among
\* the other calls on users and teams
NextTx ==
    \/ ~WriteLocked /\ \E n \in UserNames, k \in Keys : CreateUser(n, k)
    \/ ~WriteLocked /\ \E u \in UserIds, n \in TeamNames : JoinTeamCall(u, n)
    \/ ~WriteLocked /\ \E u \in UserIds : LeaveTeamCall(u)
    \/ ~WriteLocked /\ \E t \in 1..teamSeq : DeleteTeamCall(t)
    \/ \E u \in UserIds, n \in TeamNames, code \in Codes, ok \in BOOLEAN :
           CreateAndJoinTeamTx(u, n, code, ok)

SpecTx == Init /\ [][NextTx]_vars

(***************************************************************************)
(* Sessions (package ui): TeaHandler and the handlers of the team views.   *)
(* A session keeps m.user, a copy of the user row read when it connected;  *)
(* its TeamID (team) changes only by what the session itself does.  The    *)
(* views that only navigate are one view, "main".                          *)
(***************************************************************************)
SshUsers == {"alice", "easy"} \cup Codes

Put(s, r) == sess' = [sess EXCEPT ![s] = r]

InitialModelAuth(u) ==
    [view |-> "auth", key |-> users[u].ssh_key, user |-> u,
     team |-> users[u].team_id, hint |-> NoTeam]

\* initialModel(user): the model of a logged-in session
InitialModel(u) ==
    [view |-> "main", key |-> users[u].ssh_key, user |-> u,
     team |-> users[u].team_id, hint |-> NoTeam]

DispatchesNever(u, sshUser) == FALSE

\* TeaHandler: user.Username != sshUser, and sshUser is a key of
\* db.GetChallenges()
Dispatches(u, sshUser) ==
    users[u].username # sshUser /\ sshUser \in GetChallenges

\* HandleInstanceRequest up to its spinner: the container name is drawn and
\* stored in the context, StartChallenge runs in its goroutine
HandlerStarted(u, chal, x) ==
    [NoInst EXCEPT
        !.h = "spinner", !.user = u, !.chal = chal,
        !.containerName = [chal |-> chal, hex |-> x],
        !.ctxName = [chal |-> chal, hex |-> x],
        !.start = "image"]

\* TeaHandler: a connection with public key k and SSH user name sshUser; it
\* returns a model, or runs HandleInstanceRequest and returns none
Connect(s, k, sshUser) ==
    /\ sess[s].view = "closed"
    /\ inst[s].h = "idle"
    /\ LET hint == GetTeamByJoinCode(sshUser)
           u == GetUserBySSHKey(k)
       IN IF u # 0
          THEN IF Dispatches(u, sshUser)
               THEN /\ \E x \in HexDraws :
                         inst' = [inst EXCEPT ![s] = HandlerStarted(u, sshUser, x)]
                    /\ UNCHANGED sess
               ELSE /\ IF users[u].team_id = 0 /\ hint # NoTeam
                       THEN Put(s, [InitialModel(u) EXCEPT
                                       !.view = "promptJoin", !.hint = hint])
                       ELSE Put(s, InitialModel(u))
                    /\ UNCHANGED inst
          ELSE /\ Put(s, [view |-> "auth", key |-> k, user |-> 0, team |-> 0,
                          hint |-> hint])
               /\ UNCHANGED inst
    /\ UNCHANGED <<store, calls, regen>>
    /\ UNCHANGED <<reg, tun, incus, boot, tx, req>>

\* the connection ends (ctrl+c, or the client goes away)
Disconnect(s) ==
    /\ sess[s].view # "closed"
    /\ reg[s].pc = "idle"
    /\ tun[s].pc \in {"idle", "returned"}
    /\ Put(s, Closed)
    /\ reg' = [reg EXCEPT ![s] = NoReg]
    /\ tun' = [tun EXCEPT ![s] = NoTun]
    /\ UNCHANGED <<store, calls, regen, inst, incus, boot, tx, req>>

\* updateAuthView, enter on the username n: createUser, then the join prompt
\* when the session has a hint
Register(s, n) ==
    /\ sess[s].view = "auth"
    /\ IF CreateUserRefused(n, sess[s].key)
       THEN UNCHANGED <<users, sess>>
       ELSE /\ users' = InsertUser(n, sess[s].key)
            /\ Put(s, [sess[s] EXCEPT
                   !.user = Len(users) + 1,
                   !.view = IF sess[s].hint # NoTeam THEN "promptJoin" ELSE "main"])
    /\ UNCHANGED <<teams, teamSeq, submissions, calls, regen>>
    /\ UNCHANGED <<reg, inst, tun, incus, boot, tx, req>>

\* updateAuthView, enter on the username n, as far as createUser's checks:
\* an error is shown and the input cleared, or db.CreateUser is about to run
RegisterCheck(s, n) ==
    /\ sess[s].view = "auth"
    /\ reg[s].pc = "idle"
    /\ reg' = [reg EXCEPT ![s] =
                  IF CreateUserChecked(n, sess[s].key)
                  THEN [pc |-> "idle", n |-> n,
                        msg |-> IF n = "" \/ sess[s].key = "" THEN "empty" ELSE "taken"]
                  ELSE [pc |-> "insert", n |-> n, msg |-> "none"]]
    /\ UNCHANGED <<store, calls, regen, sess, inst, tun, incus, boot, tx, req>>

\* db.CreateUser and the rest of updateAuthView: the INSERT fails and the
\* error is shown, or the row is stored and the session leaves the auth view
RegisterInsert(s) ==
    /\ reg[s].pc = "insert"
    /\ IF InsertUserFails(reg[s].n, sess[s].key)
       THEN /\ reg' = [reg EXCEPT ![s] = [@ EXCEPT !.pc = "idle", !.msg = "failed"]]
            /\ UNCHANGED <<users, sess>>
       ELSE /\ users' = InsertUser(reg[s].n, sess[s].key)
            /\ reg' = [reg EXCEPT ![s] = [@ EXCEPT !.pc = "idle", !.msg = "ok"]]
            /\ Put(s, [sess[s] EXCEPT
                   !.user = Len(users) + 1,
                   !.view = IF sess[s].hint # NoTeam THEN "promptJoin" ELSE "main"])
    /\ UNCHANGED <<teams, teamSeq, submissions, calls, regen, inst, tun, incus, boot, tx, req>>

\* updatePromptJoinTeamView, key y: db.JoinTeam by the hint's name, then
\* m.user.TeamID = &m.joinPrompt.team.ID
PromptJoinYes(s) ==
    /\ sess[s].view = "promptJoin"
    /\ LET tid == TeamIdByName(sess[s].hint.name)
       IN IF tid = 0
          THEN /\ Put(s, [sess[s] EXCEPT !.view = "main"])
               /\ UNCHANGED users
          ELSE /\ users' = JoinTeam(sess[s].user, tid)
               /\ Put(s, [sess[s] EXCEPT !.view = "main", !.team = sess[s].hint.id])
    /\ UNCHANGED <<teams, teamSeq, submissions, calls, regen>>
    /\ UNCHANGED <<reg, inst, tun, incus, boot, tx, req>>

\* updatePromptJoinTeamView, key n
PromptJoinNo(s) ==
    /\ sess[s].view = "promptJoin"
    /\ Put(s, [sess[s] EXCEPT !.view = "main"])
    /\ UNCHANGED <<store, calls, regen>>
    /\ UNCHANGED <<reg, inst, tun, incus, boot, tx, req>>

\* team view without a cached team, Create Team and enter on the name:
\* teamModel.createTeam
CreateTeam(s, name, code) ==
    /\ sess[s].view = "main"
    /\ sess[s].team = 0
    /\ IF name = "" \/ CreateTeamRefused(name, code)
       THEN UNCHANGED <<users, teams, teamSeq, sess>>
       ELSE /\ teamSeq < MaxTeams
            /\ teams' = InsertTeam(name, code)
            /\ teamSeq' = teamSeq + 1
            /\ users' = JoinTeam(sess[s].user, teamSeq + 1)
            /\ Put(s, [sess[s] EXCEPT !.team = teamSeq + 1])
    /\ UNCHANGED <<submissions, calls, regen>>
    /\ UNCHANGED <<reg, inst, tun, incus, boot, tx, req>>

\* handleTeamMemberAction, cursor 0 (Leave Team)
TeamLeave(s) ==
    /\ sess[s].view = "main"
    /\ sess[s].team # 0
    /\ IF CountTeamMembers(sess[s].team) = 1
       THEN /\ Put(s, [sess[s] EXCEPT !.view = "confirmDelete"])
            /\ UNCHANGED users
       ELSE /\ users' = LeaveTeam(sess[s].user)
            /\ Put(s, [sess[s] EXCEPT !.team = 0])
    /\ UNCHANGED <<teams, teamSeq, submissions, calls, regen>>
    /\ UNCHANGED <<reg, inst, tun, incus, boot, tx, req>>

\* handleTeamMemberAction, cursor 1 (Regenerate Join Code)
TeamRegenerate(s, code) ==
    /\ sess[s].view = "main"
    /\ sess[s].team # 0
    /\ IF JoinCodeTaken(sess[s].team, code)
       THEN UNCHANGED <<teams, regen>>
       ELSE /\ teams' = SetJoinCode(sess[s].team, code)
            /\ regen' = [team |-> sess[s].team, old |-> JoinCodeOf(sess[s].team),
                         new |-> code]
    /\ UNCHANGED <<users, teamSeq, submissions, calls, sess>>
    /\ UNCHANGED <<reg, inst, tun, incus, boot, tx, req>>

\* updateConfirmDeleteTeamView, key y: db.LeaveTeam, then db.DeleteTeam, then
\* m.user.TeamID = nil.  err is the statement the database fails on (I/O,
\* lock), if any: the handler shows the error and returns to the team view
\* with what it has done so far
ConfirmDeleteYes(s) ==
    /\ sess[s].view = "confirmDelete"
    /\ sess[s].team # 0
    /\ \E err \in {"none", "LeaveTeam", "DeleteTeam"} :
          /\ users' = IF err = "LeaveTeam" THEN users ELSE LeaveTeam(sess[s].user)
          /\ teams' = IF err = "none" THEN DeleteTeam(sess[s].team) ELSE teams
          /\ Put(s, [sess[s] EXCEPT
                        !.view = "main",
                        !.team = IF err = "none" THEN 0 ELSE @])
    /\ UNCHANGED <<teamSeq, submissions, calls, regen>>
    /\ UNCHANGED <<reg, inst, tun, incus, boot, tx, req>>

\* Leave Team and then y with no step of another session in between: the
\* two handlers above, one after the other
LeaveTeamAndConfirm(s) ==
    /\ sess[s].view = "main"
    /\ sess[s].team # 0
    /\ CountTeamMembers(sess[s].team) = 1
    /\ users' = LeaveTeam(sess[s].user)
    /\ teams' = DeleteTeam(sess[s].team)
    /\ Put(s, [sess[s] EXCEPT !.team = 0])
    /\ UNCHANGED <<teamSeq, submissions, calls, regen>>
    /\ UNCHANGED <<reg, inst, tun, incus, boot, tx, req>>

\* updateConfirmDeleteTeamView, key n, esc or q
ConfirmDeleteNo(s) ==
    /\ sess[s].view = "confirmDelete"
    /\ Put(s, [sess[s] EXCEPT !.view = "main"])
    /\ UNCHANGED <<store, calls, regen>>
    /\ UNCHANGED <<reg, inst, tun, incus, boot, tx, req>>

\* the sessions of the server, each handler that changes membership one
\* step; join codes change in SpecTeams
NextUI ==
    \/ \E s \in Sessions, k \in Keys, n \in SshUsers \ GetChallenges : Connect(s, k, n)
    \/ \E s \in Sessions : Disconnect(s)
    \/ \E s \in Sessions, n \in NameInputs : Register(s, n)
    \/ \E s \in Sessions : PromptJoinYes(s)
    \/ \E s \in Sessions : PromptJoinNo(s)
    \/ \E s \in Sessions, n \in TeamNameInputs, code \in Codes : CreateTeam(s, n, code)
    \/ \E s \in Sessions : TeamLeave(s)
    \/ \E s \in Sessions : ConfirmDeleteYes(s)
    \/ \E s \in Sessions : LeaveTeamAndConfirm(s)
    \/ \E s \in Sessions : ConfirmDeleteNo(s)

SpecUI == Init /\ [][NextUI]_vars

\* sessions that register, create teams, regenerate join codes and answer
\* the join prompt
NextJoin ==
    \/ \E s \in Sessions, k \in Keys, n \in SshUsers \ GetChallenges : Connect(s, k, n)
    \/ \E s \in Sessions : Disconnect(s)
    \/ \E s \in Sessions, n \in UserNames : Register(s, n)
    \/ \E s \in Sessions, n \in TeamNames, code \in Codes : CreateTeam(s, n, code)
    \/ \E s \in Sessions, code \in Codes : TeamRegenerate(s, code)
    \/ \E s \in Sessions : PromptJoinYes(s)
    \/ \E s \in Sessions : PromptJoinNo(s)

SpecJoin == Init /\ [][NextJoin]_vars

\* registrations of two connections, createUser's checks and db.CreateUser's
\* INSERT being two steps that interleave; stored users create teams, so
\* that a connection can arrive with the join code of one
NextReg ==
    \/ \E u \in UserIds, n \in TeamNames, code \in Codes : CreateAndJoinTeam(u, n, code)
    \/ \E s \in Sessions, k \in Keys, n \in SshUsers \ GetChallenges : Connect(s, k, n)
    \/ \E s \in Sessions : Disconnect(s)
    \/ \E s \in Sessions, n \in NameInputs : RegisterCheck(s, n)
    \/ \E s \in Sessions : RegisterInsert(s)

SpecReg == Init /\ [][NextReg]_vars

\* connections with any key and any SSH user name over stored users and
\* teams; a connection TeaHandler hands to HandleInstanceRequest stays there
NextDispatch ==
    \/ \E n \in NameInputs, k \in Keys : CreateUser(n, k)
    \/ \E u \in UserIds, n \in TeamNames, code \in Codes : CreateAndJoinTeam(u, n, code)
    \/ \E s \in Sessions, k \in Keys, n \in SshUsers : Connect(s, k, n)
    \/ \E s \in Sessions : Disconnect(s)

SpecDispatch == Init /\ [][NextDispatch]_vars

(***************************************************************************)
(* The challenge views of a session (package ui): the menu, the challenge  *)
(* list, the detail view and the flag input.  Here "main" is the menu.  A  *)
(* session keeps cm.challenges' solved marks (solved) and cm.selectedChal, *)
(* the copy of the list entry taken when the challenge was selected.       *)
(***************************************************************************)
\* the model of a logged-in session once finishInitialization has run
\* newChallengeModel: the list is loaded and loadSolvedStatus marks it
FlagSession(u) ==
    [view |-> "main", key |-> users[u].ssh_key, user |-> u,
     team |-> users[u].team_id, hint |-> NoTeam,
     solved |-> GetChallengesSolvedByUser(u),
     selectedChal |-> [id |-> 0, solved |-> FALSE],
     onBackState |-> "main", message |-> "", messageType |-> ""]

\* two stored users without a team, each connection logged in as one of them
InitFlag ==
    /\ users = << [username |-> "alice", ssh_key |-> "K1", team_id |-> 0],
                  [username |-> "bob", ssh_key |-> "K2", team_id |-> 0] >>
    /\ teams = {}
    /\ teamSeq = 0
    /\ submissions = <<>>
    /\ calls = [a \in Callers |-> NoCall]
    /\ regen = NoRegen
    /\ sess \in [Sessions -> {FlagSession(1), FlagSession(2)}]
    /\ reg = [s \in Sessions |-> NoReg]
    /\ inst = [s \in Sessions |-> NoInst]
    /\ tun = [s \in Sessions |-> NoTun]
    /\ incus = Built
    /\ boot = Listening
    /\ tx = NoTx
    /\ req = NoReq

\* updateMenuView, Select on "Challenges": loadSolvedStatus marks the list
\* entries of the challenges the user has solved (it never clears a mark)
updateMenuView(s) ==
    /\ sess[s].view = "main"
    /\ Put(s, [sess[s] EXCEPT
                  !.view = "challenges",
                  !.solved = @ \cup GetChallengesSolvedByUser(sess[s].user)])
    /\ UNCHANGED <<store, calls, regen>>
    /\ UNCHANGED <<reg, inst, tun, incus, boot, tx, req>>

\* updateChallengeView and challengeModel.update: Back goes to the menu;
\* Select on the list entry of challenge c copies the entry into
\* selectedChal and the switchToDetailView message opens the detail view
updateChallengeView(s, k, c) ==
    /\ sess[s].view = "challenges"
    /\ IF k = "back"
       THEN Put(s, [sess[s] EXCEPT !.view = "main"])
       ELSE Put(s, [sess[s] EXCEPT
                       !.view = "detail",
                       !.selectedChal = [id |-> c, solved |-> c \in sess[s].solved]])
    /\ UNCHANGED <<store, calls, regen>>
    /\ UNCHANGED <<reg, inst, tun, incus, boot, tx, req>>

\* updateChallengeDetailView: Back reloads the solved marks and shows the
\* list; Select opens the flag input unless selectedChal is marked solved
updateChallengeDetailView(s, k) ==
    /\ sess[s].view = "detail"
    /\ IF k = "back"
       THEN Put(s, [sess[s] EXCEPT
                       !.view = "challenges",
                       !.solved = @ \cup GetChallengesSolvedByUser(sess[s].user)])
       ELSE IF ~sess[s].selectedChal.solved
            THEN Put(s, [sess[s] EXCEPT
                            !.view = "input",
                            !.onBackState = "detail",
                            !.message = ""])
            ELSE UNCHANGED sess
    /\ UNCHANGED <<store, calls, regen>>
    /\ UNCHANGED <<reg, inst, tun, incus, boot, tx, req>>

\* every submission answered "Correct!"
submitFlagBlind(m, f) ==
    [message |-> "Correct! Flag accepted.", messageType |-> "success",
     rows |-> << >>]

\* challengeModel.submitFlag(flag) of the session with model m: the message,
\* its type, and the row db.SubmitFlag inserts (none for an empty input and
\* for a challenge the user has solved)
submitFlag(m, f) ==
    LET u == m.user
        c == m.selectedChal.id
    IN IF f = << >>
       THEN [message |-> "", messageType |-> "", rows |-> << >>]
       ELSE IF AlreadySolved(u, c)
       THEN [message |-> "you have already solved this challenge",
             messageType |-> "error", rows |-> << >>]
       ELSE IF FlagCorrect(c, f)
       THEN [message |-> "Correct! Flag accepted.", messageType |-> "success",
             rows |-> << SubmissionRow(u, c, f, TRUE) >>]
       ELSE [message |-> "Incorrect flag. Try again.", messageType |-> "error",
             rows |-> << SubmissionRow(u, c, f, FALSE) >>]

\* updateGenericInputView with the flag input: Cancel goes to onBackState;
\* Enter calls onSubmit (submitFlag) on the typed value, shows its message,
\* and on "success" goes to onBackState, submitFlag having marked
\* selectedChal and the list entry solved and reloaded the solved marks
updateGenericInputView(s, k, f) ==
    /\ sess[s].view = "input"
    /\ LET m == sess[s]
           r == submitFlag(m, f)
       IN IF k = "cancel"
          THEN /\ Put(s, [m EXCEPT !.view = m.onBackState])
               /\ UNCHANGED submissions
          ELSE /\ Len(submissions) + Len(r.rows) <= MaxSubs
               /\ submissions' = submissions \o r.rows
               /\ IF r.messageType = "success"
                  THEN Put(s, [m EXCEPT
                          !.message = r.message,
                          !.messageType = r.messageType,
                          !.selectedChal.solved = TRUE,
                          !.solved = @ \cup {m.selectedChal.id}
                                       \cup GetChallengesSolvedByUser(m.user),
                          !.view = m.onBackState])
                  ELSE Put(s, [m EXCEPT
                          !.message = r.message,
                          !.messageType = r.messageType])
    /\ UNCHANGED <<users, teams, teamSeq, calls, regen>>
    /\ UNCHANGED <<reg, inst, tun, incus, boot, tx, req>>

\* the key events of the challenge views of the two connections
NextFlag ==
    \/ \E s \in Sessions : updateMenuView(s)
    \/ \E s \in Sessions, k \in {"back", "select"}, c \in ChalIds :
           updateChallengeView(s, k, c)
    \/ \E s \in Sessions, k \in {"back", "select"} :
           updateChallengeDetailView(s, k)
    \/ \E s \in Sessions, k \in {"cancel", "enter"},
          f \in FlagInputs \cup {<< >>} :
           updateGenericInputView(s, k, f)

SpecFlag == InitFlag /\ [][NextFlag]_vars

(***************************************************************************)
(* Key events (package ui): model.Update on a tea.KeyMsg, with the menu,   *)
(* the challenge list and the scoreboard.  Each handler is a function from *)
(* the model and the key to the model it returns; a session that has quit  *)
(* has the view "closed".  What the team view, the detail view and the     *)
(* inputs do with the store is in the sections above.                      *)
(***************************************************************************)
\* keys a terminal sends; Runes are the ones of type tea.KeyRunes
Runes == {"y", "n", "q", "a", "?", "/"}

KeyEvents == Runes \cup {"ctrl+c", "esc", "enter", "backspace", "up", "down"}

\* db.GetChallengeCategories(): SELECT DISTINCT category ... ORDER BY category
GetChallengeCategories ==
    SelectSeq(<<"misc", "web">>, LAMBDA c : \E ch \in Challenges : ch.category = c)

\* each connection at the menu: the model initialModel returns, categories
\* being cm.categories, nil when the query of GetChallengeCategories failed
InitKeys ==
    /\ users = << [username |-> "alice", ssh_key |-> "K1", team_id |-> 0] >>
    /\ teams = {}
    /\ teamSeq = 0
    /\ submissions = <<>>
    /\ calls = [a \in Callers |-> NoCall]
    /\ regen = NoRegen
    /\ sess \in [Sessions ->
          {[view |-> "main", confirmQuit |-> FALSE, showHelp |-> FALSE,
            inputFocus |-> FALSE, menuCursor |-> 0,
            categories |-> cats, cursor |-> 0, expandedCats |-> {},
            selectedChal |-> "", searchMode |-> FALSE, search |-> << >>] :
           cats \in {GetChallengeCategories, << >>}}]
    /\ reg = [s \in Sessions |-> NoReg]
    /\ inst = [s \in Sessions |-> NoInst]
    /\ tun = [s \in Sessions |-> NoTun]
    /\ incus = Built
    /\ boot = Listening
    /\ tx = NoTx
    /\ req = NoReq

\* challengeModel.buildChallengeRenderList: for each category of
\* cm.categories its item, followed when it is expanded by its challenges,
\* by points descending and then by name
buildChallengeRenderList(m) ==
    LET rank(n) == CHOOSE i \in 1..2 : <<"easy", "web">>[i] = n
        less(x, y) ==
            IF x.points = y.points
            THEN rank(x.name) < rank(y.name)
            ELSE x.points > y.points
        RECURSIVE sorted(_)
        sorted(S) ==
            IF S = {} THEN << >>
            ELSE LET x == CHOOSE x \in S : \A y \in S \ {x} : less(x, y)
                 IN <<[kind |-> "challenge", name |-> x.name]>> \o sorted(S \ {x})
        RECURSIVE items(_)
        items(cats) ==
            IF cats = << >> THEN << >>
            ELSE LET c == Head(cats)
                 IN <<[kind |-> "category", name |-> c]>>
                    \o (IF c \in m.expandedCats
                        THEN sorted({ch \in Challenges : ch.category = c})
                        ELSE << >>)
                    \o items(Tail(cats))
    IN items(m.categories)

\* the cursor moved by up and down with no check and no clamp
challengeUpdateUnchecked(m, k) ==
    [m EXCEPT !.cursor = IF k = "down" THEN @ + 1
                         ELSE IF k = "up" THEN @ - 1 ELSE @]

\* updateChallengeView: challengeModel.update moves the cursor, toggles the
\* category under it or selects the challenge under it (the
\* switchToDetailView message then shows the detail view), and clamps the
\* cursor into the new list unless a challenge was selected; then Back shows
\* the menu and ? toggles the help
challengeUpdate(m, k) ==
    LET n == Len(buildChallengeRenderList(m))
        clamp(x) ==
            LET len == Len(buildChallengeRenderList(x))
                c1 == IF x.cursor >= len THEN len - 1 ELSE x.cursor
            IN [x EXCEPT !.cursor = IF c1 < 0 THEN 0 ELSE c1]
        item == buildChallengeRenderList(m)[m.cursor + 1]
    IN IF k = "up"
       THEN clamp([m EXCEPT !.cursor = IF @ > 0 THEN @ - 1 ELSE @])
       ELSE IF k = "down"
       THEN clamp([m EXCEPT !.cursor = IF @ < n - 1 THEN @ + 1 ELSE @])
       ELSE IF k = "enter"
       THEN IF n = 0 THEN clamp(m)
            ELSE IF item.kind = "category"
            THEN clamp([m EXCEPT !.expandedCats =
                           IF item.name \in @ THEN @ \ {item.name}
                           ELSE @ \cup {item.name}])
            ELSE [m EXCEPT !.selectedChal = item.name, !.view = "detail"]
       ELSE IF k \in {"esc", "q"} THEN [clamp(m) EXCEPT !.view = "main"]
       ELSE IF k = "?" THEN [clamp(m) EXCEPT !.showHelp = ~@]
       ELSE clamp(m)

\* updateScoreboardView: scoreboardModel.update first (in search mode a rune
\* is appended to the query, backspace drops its last rune or, on an empty
\* query, ends the search, esc and enter end the search and clear the query;
\* otherwise / starts a search and the table takes the other keys), then
\* m.inputFocus = m.scoreboard.searchMode, then Back shows the menu unless
\* inputFocus, and ? toggles the help
scoreboardUpdate(m, k) ==
    LET sm == IF m.searchMode
              THEN IF k \in Runes
                   THEN [m EXCEPT !.search = Append(@, k)]
                   ELSE IF k = "backspace"
                   THEN IF Len(m.search) > 0
                        THEN [m EXCEPT !.search = SubSeq(@, 1, Len(@) - 1)]
                        ELSE [m EXCEPT !.searchMode = FALSE]
                   ELSE IF k \in {"esc", "enter"}
                   THEN [m EXCEPT !.searchMode = FALSE, !.search = << >>]
                   ELSE m
              ELSE IF k = "/"
                   THEN [m EXCEPT !.searchMode = TRUE, !.search = << >>]
                   ELSE m
        f == [sm EXCEPT !.inputFocus = sm.searchMode]
    IN IF k \in {"esc", "q"}
       THEN IF ~f.inputFocus THEN [f EXCEPT !.view = "main"] ELSE f
       ELSE IF k = "?" THEN [f EXCEPT !.showHelp = ~@]
       ELSE f

\* updateMenuView: Back raises the quit confirmation, up and down move the
\* menu cursor over the three entries, Select opens the entry under it
menuUpdate(m, k) ==
    IF k \in {"esc", "q"} THEN [m EXCEPT !.confirmQuit = TRUE]
    ELSE IF k = "?" THEN [m EXCEPT !.showHelp = ~@]
    ELSE IF k = "up" THEN [m EXCEPT !.menuCursor = IF @ > 0 THEN @ - 1 ELSE @]
    ELSE IF k = "down" THEN [m EXCEPT !.menuCursor = IF @ < 2 THEN @ + 1 ELSE @]
    ELSE IF k = "enter"
    THEN IF m.menuCursor = 0 THEN [m EXCEPT !.view = "challenges", !.cursor = 0]
         ELSE IF m.menuCursor = 1 THEN [m EXCEPT !.view = "scoreboard"]
         ELSE [m EXCEPT !.view = "team"]
    ELSE m

\* every key but y and ctrl+c ends the quit confirmation
UpdateKeyDismissing(m, k) ==
    IF k = "ctrl+c" THEN [m EXCEPT !.view = "closed"]
    ELSE IF m.confirmQuit
    THEN IF k = "y" THEN [m EXCEPT !.view = "closed"]
         ELSE [m EXCEPT !.confirmQuit = FALSE]
    ELSE IF m.view = "main" THEN menuUpdate(m, k)
    ELSE IF m.view = "challenges" THEN challengeUpdate(m, k)
    ELSE IF m.view = "scoreboard" THEN scoreboardUpdate(m, k)
    ELSE IF k = "?" THEN [m EXCEPT !.showHelp = ~@]
    ELSE IF k \in {"esc", "q"}
    THEN [m EXCEPT !.view = IF m.view = "detail" THEN "challenges" ELSE "main"]
    ELSE m

\* model.Update on the key k: keys.Quit quits; under the quit confirmation y
\* quits, n, esc and q end it and every other key is dropped; otherwise the
\* handler of m.state takes the key (of the detail view and the team view
\* only Back and ?)
UpdateKey(m, k) ==
    IF k = "ctrl+c" THEN [m EXCEPT !.view = "closed"]
    ELSE IF m.confirmQuit
    THEN IF k = "y" THEN [m EXCEPT !.view = "closed"]
         ELSE IF k \in {"n", "esc", "q"} THEN [m EXCEPT !.confirmQuit = FALSE]
         ELSE m
    ELSE IF m.view = "main" THEN menuUpdate(m, k)
    ELSE IF m.view = "challenges" THEN challengeUpdate(m, k)
    ELSE IF m.view = "scoreboard" THEN scoreboardUpdate(m, k)
    ELSE IF k = "?" THEN [m EXCEPT !.showHelp = ~@]
    ELSE IF k \in {"esc", "q"}
    THEN [m EXCEPT !.view = IF m.view = "detail" THEN "challenges" ELSE "main"]
    ELSE m

\* the program of session s handles the key k
Update(s, k) ==
    /\ sess[s].view # "closed"
    /\ Len(UpdateKey(sess[s], k).search) <= MaxQuery
    /\ Put(s, UpdateKey(sess[s], k))
    /\ UNCHANGED <<store, calls, regen>>
    /\ UNCHANGED <<reg, inst, tun, incus, boot, tx, req>>

\* the keys of one connection, the other staying at the menu
NextKeys == \E k \in KeyEvents : Update("s1", k)

SpecKeys == InitKeys /\ [][NextKeys]_vars

(***************************************************************************)
(* Instances (package instance): HandleInstanceRequest, StartChallenge and *)
(* stopContainer of one connection.  The handler runs in the connection's  *)
(* session goroutine, StartChallenge and stopContainer in goroutines of    *)
(* their own, so their steps interleave.  util.Must ends the process       *)
(* (log.Fatal) when a call on the runtime returns an error.                *)
(***************************************************************************)
Alive == boot.pc = "listen"

\* util.Must(err) with err # nil: log.Fatal
Fatal == boot' = [boot EXCEPT !.pc = "exited"]

SetInst(s, r) == inst' = [inst EXCEPT ![s] = r]

ReturnedNoDefer(i) == [i EXCEPT !.h = "returned"]

\* HandleInstanceRequest returns: the deferred go stopContainer(containerName)
Returned(i) ==
    [i EXCEPT !.h = "returned", !.stop = "state", !.stopName = i.containerName]

\* the steps of HandleInstanceRequest that need nothing from the peer.
\* The spinner's select: case <-readyChan prints the instructions and goes
\* on to the read loop, case <-s.Context().Done() returns (both may be
\* ready).  The read loop's select: break when the context is done, else
\* s.Read.
HandleInstanceRequest(s) ==
    /\ Alive
    /\ \/ /\ inst[s].h = "spinner"
          /\ inst[s].ready
          /\ SetInst(s, [inst[s] EXCEPT !.h = "select"])
       \/ /\ inst[s].h = "spinner"
          /\ inst[s].ctxDone
          /\ SetInst(s, Returned(inst[s]))
       \/ /\ inst[s].h = "select"
          /\ SetInst(s, IF inst[s].ctxDone
                        THEN Returned(inst[s])
                        ELSE [inst[s] EXCEPT !.h = "read"])
    /\ UNCHANGED <<store, calls, regen, sess, reg, tun, incus, boot, tx, req>>

\* s.Read returns: a byte the peer sent, ctrl+c (break), or an error, the
\* peer having closed the session (break)
Read(s, r) ==
    /\ Alive
    /\ inst[s].h = "read"
    /\ SetInst(s, IF r = "byte"
                  THEN [inst[s] EXCEPT !.h = "select"]
                  ELSE Returned(inst[s]))
    /\ UNCHANGED <<store, calls, regen, sess, reg, tun, incus, boot, tx, req>>

\* the connection's context is cancelled
CancelContext(s) ==
    /\ Alive
    /\ inst[s].h # "idle"
    /\ ~inst[s].ctxDone
    /\ SetInst(s, [inst[s] EXCEPT !.ctxDone = TRUE])
    /\ UNCHANGED <<store, calls, regen, sess, reg, tun, incus, boot, tx, req>>

\* the goroutine of StartChallenge(chal.Name, containerName), call by call.
\* CreateChallengeImage: GetImages and the return when the alias exists;
\* ensureNetworkExists; the builder instance created (the name is taken:
\* Must), started, provisioned and stopped; CreateImage with the alias (the
\* alias exists: Must); DeleteInstance of the builder.  Then
\* deleteInstanceIfExists; CreateInstance (the name is taken: Must);
\* UpdateInstanceState start (no such instance: Must); runCmdInContainer
\* (the instance does not run: Must), and on its return the caller's
\* close(readyChan)
StartChallenge(s) ==
    /\ Alive
    /\ LET nm == inst[s].containerName
           n == inst[s].chal
       IN \/ /\ inst[s].start = "image"
             /\ SetInst(s, [inst[s] EXCEPT !.start =
                               IF Alias(n) \in incus.images THEN "delete" ELSE "net"])
             /\ UNCHANGED <<incus, boot>>
          \/ /\ inst[s].start = "net"
             /\ incus' = [incus EXCEPT !.net = TRUE]
             /\ SetInst(s, [inst[s] EXCEPT !.start = "builder"])
             /\ UNCHANGED boot
          \/ /\ inst[s].start = "builder"
             /\ IF incus.builders[n] = "absent"
                THEN /\ incus' = [incus EXCEPT !.builders[n] = "stopped",
                                               !.builds[n] = @ + 1]
                     /\ SetInst(s, [inst[s] EXCEPT !.start = "publish"])
                     /\ UNCHANGED boot
                ELSE Fatal /\ UNCHANGED <<inst, incus>>
          \/ /\ inst[s].start = "publish"
             /\ IF Alias(n) \notin incus.images
                THEN /\ incus' = [incus EXCEPT !.images = @ \cup {Alias(n)}]
                     /\ SetInst(s, [inst[s] EXCEPT !.start = "unbuild"])
                     /\ UNCHANGED boot
                ELSE Fatal /\ UNCHANGED <<inst, incus>>
          \/ /\ inst[s].start = "unbuild"
             /\ IF incus.builders[n] # "absent"
                THEN /\ incus' = [incus EXCEPT !.builders[n] = "absent"]
                     /\ SetInst(s, [inst[s] EXCEPT !.start = "delete"])
                     /\ UNCHANGED boot
                ELSE Fatal /\ UNCHANGED <<inst, incus>>
          \/ /\ inst[s].start = "delete"
             /\ incus' = [incus EXCEPT !.insts[nm] = "absent"]
             /\ SetInst(s, [inst[s] EXCEPT !.start = "create"])
             /\ UNCHANGED boot
          \/ /\ inst[s].start = "create"
             /\ IF incus.insts[nm] = "absent"
                THEN /\ incus' = [incus EXCEPT !.insts[nm] = "stopped"]
                     /\ SetInst(s, [inst[s] EXCEPT !.start = "start"])
                     /\ UNCHANGED boot
                ELSE Fatal /\ UNCHANGED <<inst, incus>>
          \/ /\ inst[s].start = "start"
             /\ IF incus.insts[nm] = "stopped"
                THEN /\ incus' = [incus EXCEPT !.insts[nm] = "running"]
                     /\ SetInst(s, [inst[s] EXCEPT !.start = "run"])
                     /\ UNCHANGED boot
                ELSE Fatal /\ UNCHANGED <<inst, incus>>
          \/ /\ inst[s].start = "run"
             /\ IF incus.insts[nm] = "running"
                THEN /\ SetInst(s, [inst[s] EXCEPT !.start = "done", !.ready = TRUE])
                     /\ UNCHANGED <<incus, boot>>
                ELSE Fatal /\ UNCHANGED <<inst, incus>>
    /\ UNCHANGED <<store, calls, regen, sess, reg, tun, tx, req>>

\* the goroutine of stopContainer(name), call by call: GetInstanceState, on
\* whose error it logs and returns; UpdateInstanceState stop when the state
\* it read was Running (an error: Must); DeleteInstance, which the runtime
\* refuses for a running instance and for one it does not have (Must)
stopContainer(s) ==
    /\ Alive
    /\ LET nm == inst[s].stopName
       IN \/ /\ inst[s].stop = "state"
             /\ SetInst(s, [inst[s] EXCEPT !.stop =
                               CASE incus.insts[nm] = "absent" -> "done"
                                 [] incus.insts[nm] = "running" -> "stop"
                                 [] OTHER -> "delete"])
             /\ UNCHANGED <<incus, boot>>
          \/ /\ inst[s].stop = "stop"
             /\ IF incus.insts[nm] = "running"
                THEN /\ incus' = [incus EXCEPT !.insts[nm] = "stopped"]
                     /\ SetInst(s, [inst[s] EXCEPT !.stop = "delete"])
                     /\ UNCHANGED boot
                ELSE Fatal /\ UNCHANGED <<inst, incus>>
          \/ /\ inst[s].stop = "delete"
             /\ IF incus.insts[nm] = "stopped"
                THEN /\ incus' = [incus EXCEPT !.insts[nm] = "absent"]
                     /\ SetInst(s, [inst[s] EXCEPT !.stop = "done"])
                     /\ UNCHANGED boot
                ELSE Fatal /\ UNCHANGED <<inst, incus>>
    /\ UNCHANGED <<store, calls, regen, sess, reg, tun, tx, req>>

(***************************************************************************)
(* DirectTCPChannelHandler: one direct-tcpip channel of a connection at a  *)
(* time.  The handler runs in a goroutine of its own, and so does each of  *)
(* its two io.Copy calls.                                                  *)
(***************************************************************************)
\* payload.DestAddr: a challenge, a name that is no challenge, the empty host
TunDests == {"easy", "nochal", ""}

SetTun(s, r) == tun' = [tun EXCEPT ![s] = r]

\* the connection of slot s is open
Connected(s) ==
    \/ sess[s].view # "closed"
    \/ inst[s].h # "idle" /\ ~inst[s].ctxDone

\* the handler up to newChan.Accept(): a payload that does not parse is
\* rejected, any other channel is accepted (no LocalPortForwardingCallback
\* is set)
TunOpen(s, dest, parses) ==
    /\ Alive
    /\ Connected(s)
    /\ tun[s].pc \in {"idle", "returned"}
    /\ SetTun(s, IF parses
                 THEN [NoTun EXCEPT !.pc = "lookup", !.dest = dest,
                                    !.accepted = TRUE, !.chanOpen = TRUE]
                 ELSE [NoTun EXCEPT !.pc = "returned", !.rejected = TRUE])
    /\ UNCHANGED <<store, calls, regen, sess, reg, inst, incus, boot, tx, req>>

\* getContainerIp(name): what the call can return.  "" when GetInstanceState
\* fails (no such instance) or the instance has no inet address that begins
\* with "10" (it is not running, or has no lease yet); otherwise that address
\* of the instance.  An address stands here as the name of the instance that
\* has it, and "" as NoName
getContainerIp(nm) ==
    IF incus.insts[nm] = "running" THEN {nm, NoName} ELSE {NoName}

\* net.Dial("tcp", getContainerIp(containerName) + ":" + port); host is the
\* host part of the address dialed, and "" (NoName) is the local system.  The dial
\* fails and the handler returns, or the two copy goroutines are started
TunDial(s, ok) ==
    /\ Alive
    /\ tun[s].pc = "dial"
    /\ \E a \in getContainerIp(tun[s].name) :
          SetTun(s, IF ok
                    THEN [tun[s] EXCEPT !.pc = "copy", !.dialed = TRUE,
                                        !.host = a, !.targetOpen = TRUE,
                                        !.up = "copy", !.down = "copy"]
                    ELSE [tun[s] EXCEPT !.pc = "returned", !.dialed = TRUE,
                                        !.host = a, !.chanOpen = FALSE])
    /\ UNCHANGED <<store, calls, regen, sess, reg, inst, incus, boot, tx, req>>

\* the peer closes its end of the channel, or the service in the container
\* closes the TCP connection
EndpointCloses(s, peer) ==
    /\ Alive
    /\ tun[s].pc = "copy"
    /\ IF peer
       THEN ~tun[s].chanEOF /\ SetTun(s, [tun[s] EXCEPT !.chanEOF = TRUE])
       ELSE ~tun[s].targetEOF /\ SetTun(s, [tun[s] EXCEPT !.targetEOF = TRUE])
    /\ UNCHANGED <<store, calls, regen, sess, reg, inst, incus, boot, tx, req>>

\* the two copy goroutines.  io.Copy(target, channel) returns when the
\* channel is at its end or closed, io.Copy(channel, target) when the socket
\* is; the goroutine then sends on done (buffered, never full), and its
\* deferred wg.Done() runs
Copy(s) ==
    /\ Alive
    /\ \/ /\ tun[s].up = "copy"
          /\ tun[s].chanEOF \/ ~tun[s].chanOpen
          /\ SetTun(s, [tun[s] EXCEPT !.up = "sent", !.done = @ + 1])
       \/ /\ tun[s].down = "copy"
          /\ tun[s].targetEOF \/ ~tun[s].targetOpen
          /\ SetTun(s, [tun[s] EXCEPT !.down = "sent", !.done = @ + 1])
       \/ tun[s].up = "sent" /\ SetTun(s, [tun[s] EXCEPT !.up = "fin"])
       \/ tun[s].down = "sent" /\ SetTun(s, [tun[s] EXCEPT !.down = "fin"])
    /\ UNCHANGED <<store, calls, regen, sess, reg, inst, incus, boot, tx, req>>

WaitNoGoroutine(t) == TRUE

\* wg.Wait(): both goroutines have called wg.Done()
Wait(t) == t.up = "fin" /\ t.down = "fin"

\* the steps of the handler after Accept that need nothing from outside.
\* ctx.Value("containerName"), the destination checks and getChallengePath:
\* the handler returns (its deferred channel.Close()), after newChan.Reject
\* when the destination is refused, or goes on to dial.  <-done, then
\* target.Close() and channel.Close().  wg.Wait() and the return.
DirectTCPChannelHandler(s) ==
    /\ Alive
    /\ \/ /\ tun[s].pc = "lookup"
          /\ SetTun(s,
                IF inst[s].ctxName = NoName
                THEN [tun[s] EXCEPT !.pc = "returned", !.chanOpen = FALSE]
                ELSE IF tun[s].dest = "" \/ tun[s].dest \notin GetChallenges
                     THEN [tun[s] EXCEPT !.pc = "returned", !.chanOpen = FALSE,
                                         !.rejected = TRUE]
                     ELSE [tun[s] EXCEPT !.pc = "dial", !.name = inst[s].ctxName])
       \/ /\ tun[s].pc = "copy"
          /\ tun[s].done > 0
          /\ SetTun(s, [tun[s] EXCEPT !.pc = "wait", !.done = @ - 1,
                                      !.chanOpen = FALSE, !.targetOpen = FALSE])
       \/ /\ tun[s].pc = "wait"
          /\ Wait(tun[s])
          /\ SetTun(s, [tun[s] EXCEPT !.pc = "returned"])
    /\ UNCHANGED <<store, calls, regen, sess, reg, inst, incus, boot, tx, req>>

\* one connection of a stored user: a UI session, or the instance handler
\* with its goroutines and a direct-tcpip channel
InitInst ==
    /\ users = <<[username |-> "alice", ssh_key |-> "K1", team_id |-> 0]>>
    /\ teams = {}
    /\ teamSeq = 0
    /\ submissions = <<>>
    /\ calls = [a \in Callers |-> NoCall]
    /\ regen = NoRegen
    /\ sess = [s \in Sessions |-> Closed]
    /\ reg = [s \in Sessions |-> NoReg]
    /\ inst = [s \in Sessions |-> NoInst]
    /\ tun = [s \in Sessions |-> NoTun]
    /\ incus = Built
    /\ boot = Listening
    /\ tx = NoTx
    /\ req = NoReq

NextInst ==
    \/ \E k \in Keys, n \in SshUsers \ Codes : Connect("s1", k, n)
    \/ Disconnect("s1")
    \/ HandleInstanceRequest("s1")
    \/ \E r \in {"byte", "ctrl+c", "error"} : Read("s1", r)
    \/ CancelContext("s1")
    \/ StartChallenge("s1")
    \/ stopContainer("s1")
    \/ \E dest \in TunDests, parses \in BOOLEAN : TunOpen("s1", dest, parses)
    \/ \E ok \in BOOLEAN : TunDial("s1", ok)
    \/ \E peer \in BOOLEAN : EndpointCloses("s1", peer)
    \/ Copy("s1")
    \/ DirectTCPChannelHandler("s1")

SpecInst == InitInst /\ [][NextInst]_vars

\* the goroutines of the server are scheduled: a step of the handlers or of
\* their goroutines that stays possible is taken.  What the peer and the
\* service do (bytes, closing, the end of the connection) is up to them.
SpecInstFair ==
    /\ SpecInst
    /\ WF_vars(HandleInstanceRequest("s1"))
    /\ WF_vars(StartChallenge("s1"))
    /\ WF_vars(stopContainer("s1"))
    /\ WF_vars(\E ok \in BOOLEAN : TunDial("s1", ok))
    /\ WF_vars(Copy("s1"))
    /\ WF_vars(DirectTCPChannelHandler("s1"))

\* two connections of the stored user, each handed to HandleInstanceRequest
\* for a challenge: their StartChallenge goroutines and handlers interleave
NextImage ==
    \/ \E s \in Sessions, n \in GetChallenges : Connect(s, "K1", n)
    \/ \E s \in Sessions : StartChallenge(s)
    \/ \E s \in Sessions : CancelContext(s)
    \/ \E s \in Sessions : HandleInstanceRequest(s)
    \/ \E s \in Sessions : stopContainer(s)

SpecImage == InitInst /\ [][NextImage]_vars

(***************************************************************************)
(* The SFTP subsystem (package download).  A path is the sequence of its   *)
(* elements.  The handlers get the request from sftp's request server,     *)
(* which hands over the client's path made absolute and cleaned, and open  *)
(* filepath.Join(root, r.Filepath) on the host.                            *)
(***************************************************************************)
MaxSegs == 3

\* the paths a client may send
RawPaths ==
    UNION {[1..k -> {"..", ".", "easy", "etc", "hint.txt", "passwd"}] : k \in 0..MaxSegs}

\* path.Clean and filepath.Clean: "." goes, ".." takes the element before it
\* away; at the front, ".." goes when the path is rooted and stays otherwise
Clean(segs, rooted) ==
    LET RECURSIVE go(_, _)
        go(stack, rest) ==
            IF rest = <<>> THEN stack
            ELSE LET h == Head(rest)
                 IN CASE h = "." -> go(stack, Tail(rest))
                      [] h = ".." ->
                           IF stack # <<>> /\ stack[Len(stack)] # ".."
                           THEN go(SubSeq(stack, 1, Len(stack) - 1), Tail(rest))
                           ELSE IF rooted THEN go(stack, Tail(rest))
                                ELSE go(Append(stack, ".."), Tail(rest))
                      [] OTHER -> go(Append(stack, h), Tail(rest))
    IN go(<<>>, segs)

FilepathRaw(raw) == raw

\* r.Filepath: the client's path as the request server hands it over
Filepath(raw) == Clean(raw, TRUE)

\* the files and directories of the host, relative to the working directory:
\* the staging tree under downloads, and files beside it
HostFiles ==
    { <<"downloads">>, <<"downloads", "easy">>, <<"downloads", "easy", "hint.txt">>,
      <<"etc">>, <<"etc", "passwd">>, <<"easy">>, <<"easy", "hint.txt">> }

\* Fileread (method Get) and Filelist (List, Stat, and the default branch
\* for any other method) on the path raw: the host path they open is
\* filepath.Join(s.root, r.Filepath) with root ./downloads, and the error of
\* os.Open, os.ReadDir or os.Stat is returned
Serve(method, raw) ==
    /\ LET opened == Clean(<<".", "downloads">> \o Filepath(raw), FALSE)
       IN req' = IF method \in {"Get", "List", "Stat"}
                 THEN [method |-> method, raw |-> raw, opened |-> opened,
                       ret |-> IF opened \in HostFiles THEN "ok" ELSE "error"]
                 ELSE [method |-> method, raw |-> raw, opened |-> <<>>,
                       ret |-> "unsupported"]
    /\ UNCHANGED <<store, calls, regen, sess, reg, inst, tun, incus, boot, tx>>

NextSftp == \E method \in {"Get", "List", "Stat", "Readlink"}, raw \in RawPaths : Serve(method, raw)

SpecSftp == Init /\ [][NextSftp]_vars

(***************************************************************************)
(* Startup (cmd/ctfsh/main.go): main() starts one CreateChallengeImage     *)
(* goroutine per challenge with ports, waits for them, and listens.  The   *)
(* catalog is a map, so the loop visits the challenges in any order; a     *)
(* goroutine gets the challenge of its own iteration (the module uses      *)
(* range-over-int, so the loop variable is per iteration).  The runtime    *)
(* may hold images and the network from an earlier run.                    *)
(***************************************************************************)
\* one iteration of main's loop: wg.Add(1) and go CreateChallengeImage when
\* len(ch.Ports) > 0
MainLoop(n) ==
    /\ boot.pc = "loop"
    /\ n \in boot.todo
    /\ boot' = [boot EXCEPT !.todo = @ \ {n},
                            !.task[n] = IF boot.ports[n] # <<>> THEN "check" ELSE "none"]
    /\ UNCHANGED <<store, calls, regen, sess, reg, inst, tun, incus, tx, req>>

\* the goroutine of CreateChallengeImage(n, path), call by call: GetImages
\* and the return when the alias exists; ensureNetworkExists; the builder
\* instance created, started, provisioned and stopped (an error of a call:
\* Must); CreateImage with the alias ctfsh/n; DeleteInstance of the builder,
\* then the caller's wg.Done()
CreateChallengeImage(n, ok) ==
    /\ boot.pc \in {"loop", "listen"}
    /\ \/ /\ boot.task[n] = "check"
          /\ boot' = [boot EXCEPT !.task[n] =
                         IF Alias(n) \in incus.images THEN "done" ELSE "net"]
          /\ UNCHANGED incus
       \/ /\ boot.task[n] = "net"
          /\ incus' = [incus EXCEPT !.net = TRUE]
          /\ boot' = [boot EXCEPT !.task[n] = "build"]
       \/ /\ boot.task[n] = "build"
          /\ IF ok /\ incus.builders[n] = "absent"
             THEN /\ incus' = [incus EXCEPT !.builders[n] = "stopped",
                                            !.builds[n] = @ + 1]
                  /\ boot' = [boot EXCEPT !.task[n] = "image"]
             ELSE /\ boot' = [boot EXCEPT !.pc = "exited"]
                  /\ UNCHANGED incus
       \/ /\ boot.task[n] = "image"
          /\ incus' = [incus EXCEPT !.images = @ \cup {Alias(n)}]
          /\ boot' = [boot EXCEPT !.task[n] = "delete"]
       \/ /\ boot.task[n] = "delete"
          /\ incus' = [incus EXCEPT !.builders[n] = "absent"]
          /\ boot' = [boot EXCEPT !.task[n] = "done"]
    /\ UNCHANGED <<store, calls, regen, sess, reg, inst, tun, tx, req>>

WgWaitNoWait == TRUE

\* wg.Wait() returns: every goroutine that was added has called wg.Done()
WgWait == \A n \in GetChallenges : boot.task[n] \in {"none", "done"}

\* main after its loop: wg.Wait(), the server is set up, s.ListenAndServe()
MainListen ==
    /\ boot.pc = "loop"
    /\ boot.todo = {}
    /\ WgWait
    /\ boot' = [boot EXCEPT !.pc = "listen"]
    /\ UNCHANGED <<store, calls, regen, sess, reg, inst, tun, incus, tx, req>>

\* main() before its loop, for any ports of the catalog's challenges and
\* any images and network left in the runtime
InitBoot ==
    /\ users = <<>>
    /\ teams = {}
    /\ teamSeq = 0
    /\ submissions = <<>>
    /\ calls = [a \in Callers |-> NoCall]
    /\ regen = NoRegen
    /\ sess = [s \in Sessions |-> Closed]
    /\ reg = [s \in Sessions |-> NoReg]
    /\ inst = [s \in Sessions |-> NoInst]
    /\ tun = [s \in Sessions |-> NoTun]
    /\ \E im \in SUBSET {Alias(n) : n \in GetChallenges}, net \in BOOLEAN :
          incus = [Built EXCEPT !.images = im, !.net = net]
    /\ \E ports \in [GetChallenges -> {<<>>, <<8000>>}] :
          boot = [pc |-> "loop", todo |-> GetChallenges, ports |-> ports,
                  task |-> [n \in GetChallenges |-> "none"]]
    /\ tx = NoTx
    /\ req = NoReq

\* challenge.name of the ctfsh.yml files a challenge directory may hold
Manifests == { <<"W", "e", "b">>, <<" ", "w", "e", "b">>, <<"e", "a", "s", "y">> }

\* LoadChallenges line 69: strings.ReplaceAll(strings.ToLower(
\* strings.TrimSpace(name)), " ", "_"), on the characters of the title; the
\* result is given as the string it spells
ShortName(title) ==
    LET lower(ch) == CASE ch = "W" -> "w" [] ch = "E" -> "e" [] OTHER -> ch
        t == TrimSpace(title)
        name == [i \in DOMAIN t |-> IF lower(t[i]) = " " THEN "_" ELSE lower(t[i])]
        spell == [n \in GetChallenges |->
                     IF n = "web" THEN <<"w", "e", "b">> ELSE <<"e", "a", "s", "y">>]
    IN IF \E n \in GetChallenges : spell[n] = name
       THEN CHOOSE n \in GetChallenges : spell[n] = name
       ELSE "other"

\* db.Init after the schema: LoadChallenges walks the manifests and calls
\* CreateChallenge for each, whose INSERT fails on UNIQUE(name), is logged
\* and returns; after the walk Init returns nil, and main reads
\* GetChallenges, prepares the downloads and enters its loop
LoadChallenges ==
    /\ boot.pc = "init"
    /\ IF boot.next <= Len(boot.manifests)
       THEN LET n == ShortName(boot.manifests[boot.next])
            IN boot' = [boot EXCEPT
                           !.next = @ + 1,
                           !.table = IF n \in Range(@) THEN @ ELSE Append(@, n)]
       ELSE boot' = [boot EXCEPT !.pc = "loop", !.todo = Range(boot.table)]
    /\ UNCHANGED <<store, calls, regen, sess, reg, inst, tun, incus, tx, req>>

\* main() at db.Init with an empty database, for any challenge directory of
\* up to MaxManifests manifests
InitLoad ==
    /\ users = <<>>
    /\ teams = {}
    /\ teamSeq = 0
    /\ submissions = <<>>
    /\ calls = [a \in Callers |-> NoCall]
    /\ regen = NoRegen
    /\ sess = [s \in Sessions |-> Closed]
    /\ reg = [s \in Sessions |-> NoReg]
    /\ inst = [s \in Sessions |-> NoInst]
    /\ tun = [s \in Sessions |-> NoTun]
    /\ incus = [Built EXCEPT !.images = {}]
    /\ \E k \in 0..MaxManifests : \E ms \in [1..k -> Manifests] :
          boot = [pc |-> "init", manifests |-> ms, next |-> 1, table |-> <<>>,
                  todo |-> {}, ports |-> Ports,
                  task |-> [n \in GetChallenges |-> "none"]]
    /\ tx = NoTx
    /\ req = NoReq

NextLoad ==
    \/ LoadChallenges
    \/ \E n \in GetChallenges : MainLoop(n)
    \/ \E n \in GetChallenges, ok \in BOOLEAN : CreateChallengeImage(n, ok)
    \/ MainListen

SpecLoad == InitLoad /\ [][NextLoad]_vars

NextBoot ==
    \/ \E n \in GetChallenges : MainLoop(n)
    \/ \E n \in GetChallenges, ok \in BOOLEAN : CreateChallengeImage(n, ok)
    \/ MainListen

SpecBoot == InitBoot /\ [][NextBoot]_vars

(***************************************************************************)
(* Properties of SubmitFlag.                                               *)
(***************************************************************************)
\* C1: after any sequence of SubmitFlag calls, with any users, challenges
\* and flags, the submissions table holds at most one row with correct = true
\* for every pair (user, challenge).
C1_AtMostOneCorrectRow ==
    \A u \in UserIds, c \in ChalIds : CorrectCount(u, c) <= 1

\* a pair with a wrong row and then its correct row, both from SubmitFlag
C1_Witness ==
    \E u \in UserIds, c \in ChalIds :
        /\ CorrectCount(u, c) = 1
        /\ Len(submissions) = 2
        /\ \A i \in DOMAIN submissions :
               submissions[i].user_id = u /\ submissions[i].challenge_id = c
        /\ calls["a"].ret = "true"

\* C3: once a correct row exists for (u, c), a later SubmitFlag(u, c, f),
\* whatever f, returns the already-solved error and not true, leaves the
\* number of correct rows of (u, c) at 1, adds at most one row and leaves
\* every row of the scoreboard, team or solo, with the score it had.
C3_LaterSubmitRejected ==
    [][\A u \in UserIds, c \in ChalIds, f \in FlagInputs :
          (CorrectCount(u, c) >= 1 /\ SubmitFlag("a", u, c, f)) =>
              /\ calls'["a"].ret = "already"
              /\ CorrectCount(u, c)' = 1
              /\ Len(submissions') <= Len(submissions) + 1
              /\ \A t \in teams : TeamEntry(t)' = TeamEntry(t)
              /\ \A v \in SoloUsers : SoloEntry(v)' = SoloEntry(v)]_vars

\* a wrong flag sent after the pair was solved has been refused
C3_Witness ==
    LET k == calls["a"]
    IN /\ k.ret = "already"
       /\ ~FlagCorrect(k.c, k.f)
       /\ CorrectCount(k.u, k.c) = 1

\* C4: for a pair (u, c) without a correct row, SubmitFlag(u, c, f) returns
\* true exactly when f and the flag of c are equal after trimming the white
\* space around both, and appends exactly one row whose correct field is the
\* returned value; the correct rows of other users, teammates of u included,
\* never make it return the already-solved error.
C4_FirstSubmit ==
    [][\A u \in UserIds, c \in ChalIds, f \in FlagInputs :
          (CorrectCount(u, c) = 0 /\ SubmitFlag("a", u, c, f)) =>
              /\ calls'["a"].ret \in {"true", "false"}
              /\ (calls'["a"].ret = "true") <=>
                     (TrimSpace(f) = TrimSpace(ChalById(c).flag))
              /\ submissions' = Append(submissions,
                     [user_id |-> u, challenge_id |-> c, flag |-> f,
                      correct |-> (calls'["a"].ret = "true")])]_vars

\* u got true for a flag that differs from the stored one by white space
\* only, on a challenge a teammate of u had solved before
C4_Witness ==
    LET k == calls["a"]
    IN /\ k.ret = "true"
       /\ k.f # ChalById(k.c).flag
       /\ Len(submissions) = 2
       /\ submissions[2].user_id = k.u
       /\ submissions[1].user_id # k.u
       /\ submissions[1].challenge_id = k.c
       /\ submissions[1].correct
       /\ users[k.u].team_id # 0
       /\ users[k.u].team_id = users[submissions[1].user_id].team_id

\* C2: when two SubmitFlag calls for the same (user, challenge) with the
\* correct flag run concurrently, exactly one returns true, the other returns
\* the already-solved error, and exactly one correct row exists for the pair.
C2_ConcurrentSubmitOnce ==
    \A a \in Callers, b \in Callers :
        (/\ a # b
         /\ calls[a].pc = "done" /\ calls[b].pc = "done"
         /\ calls[a].u = calls[b].u /\ calls[a].c = calls[b].c
         /\ FlagCorrect(calls[a].c, calls[a].f)
         /\ FlagCorrect(calls[b].c, calls[b].f)
         /\ calls[a].ret = "true")
        => /\ calls[b].ret = "already"
           /\ CorrectCount(calls[a].u, calls[a].c) = 1

(***************************************************************************)
(* Properties of GetScoreboard.                                            *)
(***************************************************************************)
\* C5: in every reachable state of the store, the score GetScoreboard
\* reports for a team is the sum of the points of the challenges over the set
\* of pairs (user, challenge) where the user is a member of the team now and
\* the pair has at least one correct row; a pair counts once however many
\* rows it has, and the solves of users who left do not count.
C5_TeamScore ==
    LET pairs(teamID) ==
            {p \in UserIds \X ChalIds :
                users[p[1]].team_id = teamID /\ CorrectCount(p[1], p[2]) >= 1}
        sum[ps \in SUBSET (UserIds \X ChalIds)] ==
            IF ps = {} THEN 0
            ELSE LET p == CHOOSE x \in ps : TRUE
                 IN ChalById(p[2]).points + sum[ps \ {p}]
    IN /\ \A t \in teams : \E i \in DOMAIN GetScoreboard : GetScoreboard[i].id = t.id
       /\ \A i \in DOMAIN GetScoreboard :
              GetScoreboard[i].id > 0 =>
                  GetScoreboard[i].score = sum[pairs(GetScoreboard[i].id)]

\* a team whose member has two correct rows for one challenge, and a team
\* entry with a positive score
C5_Witness ==
    \E u \in UserIds, c \in ChalIds :
        /\ CorrectCount(u, c) = 2
        /\ users[u].team_id \in TeamIds
        /\ \E i \in DOMAIN GetScoreboard :
               /\ GetScoreboard[i].id = users[u].team_id
               /\ GetScoreboard[i].score = ChalById(c).points

\* C6: the list GetScoreboard returns, teams and solo users as one list, is
\* in descending order of score, ties in ascending order of name.
C6_OneSortedList ==
    \A i \in DOMAIN GetScoreboard, j \in DOMAIN GetScoreboard :
        i < j => ~Before(GetScoreboard[j], GetScoreboard[i])

\* C7: in every reachable state of the store, each user whose team_id is
\* NULL has exactly one entry in GetScoreboard's result, with the negated
\* user id as its id, no user with a team has a solo entry, and the number of
\* entries is the number of teams plus the number of solo users.
C7_SoloEntries ==
    /\ \A u \in UserIds :
           Cardinality({i \in DOMAIN GetScoreboard : GetScoreboard[i].id = 0 - u})
               = IF users[u].team_id = 0 THEN 1 ELSE 0
    /\ \A i \in DOMAIN GetScoreboard :
           GetScoreboard[i].id > 0 \/ (0 - GetScoreboard[i].id) \in UserIds
    /\ Len(GetScoreboard) =
           Cardinality(teams) + Cardinality({u \in UserIds : users[u].team_id = 0})

\* a solo user with a score beside a team that has a member
C7_Witness ==
    /\ Len(GetScoreboard) = 2
    /\ \E u \in UserIds, v \in UserIds :
           /\ users[u].team_id = 0
           /\ UserScore(u) > 0
           /\ users[v].team_id \in TeamIds

(***************************************************************************)
(* Properties of the teams.                                                *)
(***************************************************************************)
\* C8: after any interleaving of create, join, leave and confirm-delete by
\* the sessions, a team row exists if and only if at least one user has the
\* team as team_id.
C8_TeamIffMember ==
    \A t \in 1..teamSeq :
        (t \in TeamIds) <=> (\E u \in UserIds : users[u].team_id = t)

\* C9: when the sole member u of a team has selected Leave Team and confirms
\* with y, afterwards the row of that team no longer exists and the team_id
\* of u is NULL.
C9_SoleMemberLeaves ==
    [][\A s \in Sessions :
          LET u == sess[s].user
              t == users[u].team_id
          IN (/\ sess[s].view = "main"
              /\ t \in TeamIds
              /\ CountTeamMembers(t) = 1
              /\ LeaveTeamAndConfirm(s))
             => /\ t \notin TeamIds'
                /\ users'[u].team_id = 0]_vars

\* C10: after a successful RegenerateTeamJoinCode(t), GetTeamByJoinCode of
\* the new code resolves to t and GetTeamByJoinCode of the previous code of t
\* resolves to no team; each team has exactly one join code at every moment
\* and no two teams share one.
C10_RegenerateReplacesCode ==
    [][\A t \in TeamIds, code \in Codes :
          RegenerateTeamJoinCode(t, code) =>
              /\ GetTeamByJoinCode(code)'.id = t
              /\ \A x \in teams :
                     x.id = t => GetTeamByJoinCode(x.join_code)' = NoTeam
              /\ \A x \in teams', y \in teams' :
                     (x.id = y.id) <=> (x.join_code = y.join_code)]_vars

(***************************************************************************)
(* Properties of registration.                                             *)
(***************************************************************************)
\* C11: after any sequence of registration attempts, no stored user has a
\* username equal to the short name of a challenge of the catalog.
C11_NoUserNamedAsChallenge ==
    \A u \in UserIds : users[u].username \notin GetChallenges

\* a registration with a challenge's short name was refused, another stored
C11_Witness ==
    /\ \E s \in Sessions : reg[s].n \in GetChallenges /\ reg[s].msg = "taken"
    /\ Len(users) > 0

\* C12: under any interleaving of the registrations of the sessions, no two
\* stored users share a username and no two share a public key; a
\* db.CreateUser that finds a row with its username or its key stores
\* nothing, shows an error and leaves the session in the auth view, and any
\* other db.CreateUser stores exactly one row and leaves the auth view.
C12_ConcurrentRegistration ==
    /\ [](\A i, j \in UserIds :
             i # j => /\ users[i].username # users[j].username
                      /\ users[i].ssh_key # users[j].ssh_key)
    /\ [][\A s \in Sessions :
             (reg[s].pc = "insert" /\ reg'[s].pc = "idle") =>
                 IF \E i \in UserIds : \/ users[i].username = reg[s].n
                                       \/ users[i].ssh_key = sess[s].key
                 THEN /\ users' = users
                      /\ reg'[s].msg = "failed"
                      /\ sess'[s].view = "auth"
                 ELSE /\ Len(users') = Len(users) + 1
                      /\ reg'[s].msg = "ok"
                      /\ sess'[s].view # "auth"]_vars

\* two sessions with different keys entered the same username at the same
\* time: one stored its row, the other was refused by the INSERT
C12_Witness ==
    \E a, b \in Sessions :
        /\ a # b
        /\ sess[a].key # sess[b].key
        /\ reg[a].n = reg[b].n
        /\ reg[a].msg = "ok"
        /\ reg[b].msg = "failed"
        /\ sess[b].view = "auth"
        /\ Len(users) = 1

C14_StopOnEveryExit ==
    \A s \in Sessions :
        inst[s].h = "returned" =>
            /\ inst[s].stop # "none"
            /\ inst[s].stopName = inst[s].containerName
            /\ inst[s].stopName # NoName
            /\ (Alive /\ inst[s].stop # "done") => ENABLED stopContainer(s)

\* the context was cancelled, the handler returned, and stopContainer
\* stopped and deleted the container StartChallenge had started
C14_Witness ==
    \E s \in Sessions :
        /\ inst[s].h = "returned"
        /\ inst[s].ctxDone
        /\ inst[s].start = "done"
        /\ inst[s].stop = "done"
        /\ incus.insts[inst[s].containerName] = "absent"

\* C15: the container of a connection is destroyed when the connection
\* closes: in every interleaving of StartChallenge and stopContainer, once
\* both goroutines have returned the runtime has no instance with the
\* connection's container name.
C15_SandboxDestroyed ==
    \A s \in Sessions :
        (inst[s].start = "done" /\ inst[s].stop = "done") =>
            incus.insts[inst[s].containerName] = "absent"

(***************************************************************************)
(* Properties of the tunnel handler.                                       *)
(***************************************************************************)
\* C16: within one connection, DirectTCPChannelHandler dials only after the
\* instance handler has stored the container name in the connection's
\* context and StartChallenge has returned (readyChan is closed).
C16_DialAfterReady ==
    [][\A s \in Sessions :
          (tun[s].pc = "dial" /\ tun'[s].pc # "dial") =>
              (inst[s].ctxName # NoName /\ inst[s].ready)]_vars

\* C17: DirectTCPChannelHandler accepts a channel only if the connection has
\* a container name, the destination host is a known challenge and the dial
\* succeeded; a channel for which one of these fails is never accepted.
C17_AcceptOnlyAfterDial ==
    \A s \in Sessions :
        tun[s].accepted =>
            /\ inst[s].ctxName # NoName
            /\ tun[s].dest \in GetChallenges
            /\ tun[s].up # "none"

\* C18: once a copy direction has ended, the handler closes the channel and
\* the socket, and it returns only after both copy goroutines have
\* finished: it has not returned while one of them runs, and once a side
\* has closed or a copy has ended it returns (unless the process exits).
C18_CopiesJoined ==
    /\ [](\A s \in Sessions :
             /\ (tun[s].pc = "returned" /\ tun[s].up # "none") =>
                    /\ tun[s].up = "fin"
                    /\ tun[s].down = "fin"
                    /\ ~tun[s].chanOpen
                    /\ ~tun[s].targetOpen
             /\ tun[s].pc = "wait" => (~tun[s].chanOpen /\ ~tun[s].targetOpen))
    /\ \A s \in Sessions :
          (/\ tun[s].pc = "copy"
           /\ \/ tun[s].chanEOF
              \/ tun[s].targetEOF
              \/ tun[s].up # "copy"
              \/ tun[s].down # "copy")
              ~> (tun[s].pc = "returned" \/ ~Alive)

\* the service closed the socket, the peer did not close the channel, and
\* the handler has returned with both copies finished
C18_Witness ==
    \E s \in Sessions :
        /\ tun[s].pc = "returned"
        /\ tun[s].targetEOF
        /\ ~tun[s].chanEOF
        /\ tun[s].up = "fin"
        /\ tun[s].down = "fin"

\* C19: after the connection's context is cancelled, HandleInstanceRequest
\* and DirectTCPChannelHandler of that connection return, whatever the peer
\* and the service do or do not do (unless the process exits).
C19_ReturnAfterCancel ==
    \A s \in Sessions :
        inst[s].ctxDone ~>
            \/ inst[s].h = "returned" /\ tun[s].pc \in {"idle", "returned"}
            \/ ~Alive

(***************************************************************************)
(* Properties of startup.                                                  *)
(***************************************************************************)
\* C20: the server listens only after every CreateChallengeImage goroutine
\* main started has returned, and when it listens the runtime has the image
\* alias ctfsh/<name> of every challenge of the catalog that has ports.
C20_ListenAfterImages ==
    boot.pc = "listen" =>
        /\ \A n \in GetChallenges : boot.task[n] \in {"none", "done"}
        /\ \A n \in GetChallenges :
               boot.ports[n] # <<>> =>
                   (boot.task[n] = "done" /\ Alias(n) \in incus.images)

\* the server listens, both challenges have ports and both goroutines have
\* returned
C20_Witness ==
    /\ boot.pc = "listen"
    /\ \A n \in GetChallenges : boot.ports[n] # <<>> /\ boot.task[n] = "done"

(***************************************************************************)
(* Properties of the image build.                                          *)
(***************************************************************************)
\* C21: the template of a challenge is built at most once: under any
\* interleaving of the CreateChallengeImage calls of the connections, the
\* runtime creates at most one builder instance <name>-builder per
\* challenge, and none for a challenge whose alias the runtime had before
\* the connections came.
C21_BuildOnce ==
    \A n \in GetChallenges :
        /\ incus.builds[n] <= 1
        /\ Alias(n) \in Built.images => incus.builds[n] = 0

C23_RuntimeErrorConfined ==
    boot.pc # "exited"

(***************************************************************************)
(* Properties of the catalog's load.                                       *)
(***************************************************************************)
\* C24: when two manifests of the challenge directory derive the same
\* short name, startup aborts before the server listens: a server that
\* listens has loaded manifests with pairwise different short names.
C24_CollisionIsFatal ==
    boot.pc = "listen" =>
        \A i, j \in DOMAIN boot.manifests :
            i # j => ShortName(boot.manifests[i]) # ShortName(boot.manifests[j])

C26_FirstSolverOfTeam ==
    \A t \in TeamIds : \A m \in GetTeamChallengeSolvers(t) :
        LET first(c) == CHOOSE i \in DOMAIN submissions :
                /\ submissions[i].correct
                /\ submissions[i].challenge_id = c
                /\ users[submissions[i].user_id].team_id = t
                /\ \A j \in 1..(i - 1) :
                       ~(/\ submissions[j].correct
                         /\ submissions[j].challenge_id = c
                         /\ users[submissions[j].user_id].team_id = t)
        IN /\ DOMAIN m = {c \in ChalIds : \E u \in UserIds :
                             users[u].team_id = t /\ CorrectCount(u, c) >= 1}
           /\ \A c \in DOMAIN m : m[c] = users[submissions[first(c)].user_id].username

(***************************************************************************)
(* Properties of the auth view.                                            *)
(***************************************************************************)
\* C27: in the auth view, enter on an empty username, on the username of a
\* stored user or on the short name of a challenge leaves the session in
\* the auth view with an error message, and leaves the users table as it
\* was.
C27_AuthRejects ==
    [][\A s \in Sessions, n \in NameInputs :
          (/\ RegisterCheck(s, n)
           /\ n = "" \/ GetUserByUsername(n) # 0 \/ n \in GetChallenges)
          => /\ sess'[s].view = "auth"
             /\ reg'[s].pc = "idle"
             /\ reg'[s].msg = (IF n = "" THEN "empty" ELSE "taken")
             /\ users' = users]_vars

\* a session in the auth view was refused the username of a stored user,
\* the other one the empty username
C27_Witness ==
    \E a, b \in Sessions :
        /\ sess[a].view = "auth" /\ sess[b].view = "auth"
        /\ reg[a].msg = "taken"
        /\ GetUserByUsername(reg[a].n) # 0
        /\ reg[b].msg = "empty"
        /\ reg[b].n = ""

\* C28: a connection that gets a UI starts in the auth view exactly when
\* its key is no stored user's, and in the menu (or at its join prompt)
\* otherwise; whenever its SSH user name is the join code of a team the
\* session carries the hint for that team and a stored user is prompted to
\* join, and otherwise it carries no hint.
C28_InitialState ==
    [][\A s \in Sessions, k \in Keys, n \in SshUsers :
          (Connect(s, k, n) /\ sess'[s] # Closed) =>
              /\ (sess'[s].view = "auth") <=> (GetUserBySSHKey(k) = 0)
              /\ GetUserBySSHKey(k) # 0 => sess'[s].view \in {"main", "promptJoin"}
              /\ IF GetTeamByJoinCode(n) # NoTeam
                 THEN /\ sess'[s].hint = GetTeamByJoinCode(n)
                      /\ GetUserBySSHKey(k) # 0 => sess'[s].view = "promptJoin"
                 ELSE /\ sess'[s].hint = NoTeam
                      /\ sess'[s].view # "promptJoin"]_vars

\* C28, amended: as above, but the hint is carried, and a stored user
\* prompted, only when the key is no stored user's or the stored user has
\* no team; a stored user with a team starts in the menu without a hint
\* whatever the SSH user name.
C28_InitialStateNoTeam ==
    [][\A s \in Sessions, k \in Keys, n \in SshUsers :
          (Connect(s, k, n) /\ sess'[s] # Closed) =>
              LET u == GetUserBySSHKey(k)
              IN /\ (sess'[s].view = "auth") <=> (u = 0)
                 /\ u # 0 => sess'[s].view \in {"main", "promptJoin"}
                 /\ IF GetTeamByJoinCode(n) # NoTeam /\ (u = 0 \/ users[u].team_id = 0)
                    THEN /\ sess'[s].hint = GetTeamByJoinCode(n)
                         /\ u # 0 => sess'[s].view = "promptJoin"
                    ELSE /\ sess'[s].hint = NoTeam
                         /\ sess'[s].view = (IF u = 0 THEN "auth" ELSE "main")]_vars

\* a stored user without a team is at the join prompt of a team, and a
\* connection with an unknown key is in the auth view with a hint
C28_Witness ==
    \E a, b \in Sessions :
        /\ sess[a].view = "promptJoin"
        /\ sess[a].hint.id \in TeamIds
        /\ users[sess[a].user].team_id = 0
        /\ sess[b].view = "auth"
        /\ sess[b].hint.id \in TeamIds

\* C29: a successful registration in the auth view stores exactly one user
\* row, with the username entered, the public key of the session and no
\* team, makes it the user of the session, and moves the session to the
\* join prompt if the connection arrived with a hint and to the menu
\* otherwise.
C29_RegistrationCreatesUser ==
    [][\A s \in Sessions :
          (reg[s].pc = "insert" /\ reg'[s].msg = "ok") =>
              /\ users' = Append(users, [username |-> reg[s].n,
                                         ssh_key |-> sess[s].key, team_id |-> 0])
              /\ sess'[s].user = Len(users')
              /\ sess'[s].key = sess[s].key
              /\ sess'[s].view =
                     (IF sess[s].hint # NoTeam THEN "promptJoin" ELSE "main")]_vars

\* one session registered and is in the menu, created a team, and the other
\* arrived with that team's join code, registered and is at the join prompt
C29_Witness ==
    \E a, b \in Sessions :
        /\ reg[a].msg = "ok" /\ sess[a].view = "main"
        /\ reg[b].msg = "ok" /\ sess[b].view = "promptJoin"
        /\ sess[b].hint.id \in TeamIds
        /\ users[sess[b].user].ssh_key = sess[b].key
        /\ users[sess[b].user].team_id = 0
        /\ Len(users) = 2

(***************************************************************************)
(* Properties of the flag input.                                           *)
(***************************************************************************)
\* what Enter on a correct flag leaves in the session model m2 of a
\* connection that was in the flag input, the view it shows being v
FlagAccepted(m2, c, v) ==
    /\ m2.view = v
    /\ m2.message = "Correct! Flag accepted."
    /\ m2.messageType = "success"
    /\ m2.selectedChal.solved
    /\ c \in m2.solved

\* the steps of a connection s that is in the flag input, v being the view
\* an accepted flag leads to: a correct row is stored only with the success
\* outcome, an incorrect row only with the "Incorrect" error and the input
\* kept open, and on a challenge its user has solved no row is stored and
\* anything but Cancel shows the already-solved error (or nothing, for an
\* empty input) and keeps the input open
FlagInputStep(s, v) ==
    LET m == sess[s]
        m2 == sess'[s]
        u == m.user
        c == m.selectedChal.id
        grew == Len(submissions') = Len(submissions) + 1
        row == submissions'[Len(submissions')]
        mine == grew /\ m2 # m
    IN m.view = "input" =>
        /\ (mine /\ row.correct) => FlagAccepted(m2, c, v)
        /\ (mine /\ ~row.correct) =>
              /\ m2 = [m EXCEPT !.message = "Incorrect flag. Try again.",
                                !.messageType = "error"]
        /\ (grew /\ ~row.correct) => m2.view = "input"
        /\ (AlreadySolved(u, c) /\ m2 # m /\ m2.view = "input") =>
              /\ ~grew
              /\ \/ m2 = [m EXCEPT
                            !.message = "you have already solved this challenge",
                            !.messageType = "error"]
                 \/ m2 = [m EXCEPT !.message = "", !.messageType = ""]
        /\ (AlreadySolved(u, c) /\ m2 # m /\ m2.view # "input") =>
              m2 = [m EXCEPT !.view = m.onBackState]
        /\ m2.message = "Correct! Flag accepted." =>
              /\ grew /\ row.correct
              /\ row.user_id = u /\ row.challenge_id = c

C31_PromptJoinSetsTeam ==
    [][\A s \in Sessions :
          LET u == sess[s].user
              hint == sess[s].hint
          IN /\ PromptJoinYes(s) =>
                  /\ users'[u].team_id = hint.id
                  /\ sess'[s].team = hint.id
                  /\ sess'[s].view = "main"
             /\ PromptJoinNo(s) =>
                  /\ store' = store
                  /\ sess'[s].view = "main"]_vars

C33_CursorInList ==
    [][\A s \in Sessions, k \in KeyEvents :
          (sess[s].view = "challenges" /\ Update(s, k)) =>
              LET n == Len(buildChallengeRenderList(sess[s]'))
              IN IF n = 0
                 THEN sess[s]'.cursor = 0
                 ELSE 0 <= sess[s]'.cursor /\ sess[s]'.cursor < n]_vars

\* both categories are expanded and the cursor is on the last of the four
\* items of the list
C33_Witness ==
    /\ sess["s1"].view = "challenges"
    /\ sess["s1"].expandedCats = {"misc", "web"}
    /\ Len(buildChallengeRenderList(sess["s1"])) = 4
    /\ sess["s1"].cursor = 3

\* C34: in the scoreboard's search mode, esc and enter turn the search mode
\* off and the scoreboard stays shown; the Back keys (q, esc) lead from the
\* scoreboard to the menu only when the search mode is off already; and a
\* printable key typed in search mode is appended to the query and changes
\* nothing else.
C34_SearchMode ==
    \A s \in Sessions :
        LET m == sess[s]
        IN (m.view = "scoreboard" /\ ~m.confirmQuit) =>
              /\ m.searchMode =>
                    \A k \in {"esc", "enter"} :
                        /\ ~UpdateKey(m, k).searchMode
                        /\ UpdateKey(m, k).view = "scoreboard"
              /\ \A k \in {"q", "esc"} :
                    UpdateKey(m, k).view = "main" => ~m.searchMode
              /\ m.searchMode =>
                    \A k \in Runes :
                        UpdateKey(m, k) = [m EXCEPT !.search = Append(@, k)]

(***************************************************************************)
(* Properties of the tunnel's destination and of the instance names.       *)
(***************************************************************************)
\* C35: DirectTCPChannelHandler dials only the private address of the
\* container of its own connection; when that address is not available no
\* dial is made to another host, and none to the server's own host through
\* an empty host part.
C35_DialsOwnSandbox ==
    \A s \in Sessions :
        tun[s].dialed =>
            /\ tun[s].host # NoName
            /\ tun[s].host = inst[s].containerName

\* C36: the container names of connections that are open at the same time
\* are distinct, so that what StartChallenge deletes under its own name
\* before it creates its container is never the container of another
\* connection that is still open.
C36_NamesDistinct ==
    \A a \in Sessions, b \in Sessions :
        (/\ a # b
         /\ inst[a].h # "idle" /\ ~inst[a].ctxDone
         /\ inst[b].h # "idle" /\ ~inst[b].ctxDone)
            => inst[a].containerName # inst[b].containerName

(***************************************************************************)
(* Properties of membership under interleaved sessions.                    *)
(***************************************************************************)
\* C37: under any interleaving of the sessions, the stored team_id of no
\* user names a team whose row does not exist; a user who joined through the
\* join prompt between a sole member's count and its delete included.
C37_NoDanglingTeamRef ==
    \A u \in UserIds :
        users[u].team_id # 0 => users[u].team_id \in TeamIds

\* C38: a user joins a team through the join prompt only if the join code
\* the connection was opened with is still the code of that team when y is
\* pressed; a code regenerated since then admits no one.
C38_JoinNeedsCurrentCode ==
    [][\A s \in Sessions :
          LET t == TeamIdByName(sess[s].hint.name)
          IN (PromptJoinYes(s) /\ users'[sess[s].user].team_id # users[sess[s].user].team_id)
                => /\ t = sess[s].hint.id
                   /\ JoinCodeOf(t) = sess[s].hint.join_code]_vars

\* C39: after every outcome of Leave Team and of the confirm-delete view of
\* a session, the case where LeaveTeam succeeds and DeleteTeam fails
\* included, the TeamID the session caches equals the stored team_id of its
\* user, when no other session of that user is open and the two were equal
\* before.
C39_CacheFollowsStore ==
    [][\A s \in Sessions :
          LET u == sess[s].user
          IN (/\ u \in UserIds
              /\ \A t \in Sessions \ {s} : sess[t].user # u
              /\ sess[s].team = users[u].team_id
              /\ (TeamLeave(s) \/ ConfirmDeleteYes(s) \/ ConfirmDeleteNo(s)))
                => sess'[s].team = users'[u].team_id]_vars

(***************************************************************************)
(* Properties of the score series against the scoreboard                   *)
(***************************************************************************)

\* the last Score of a series, 0 for the empty one
LastScore(series) == IF series = <<>> THEN 0 ELSE series[Len(series)].Score

\* the Scores of a series never go down from one point to the next
NonDecreasing(series) ==
    \A i \in 1..(Len(series) - 1) : series[i].Score <= series[i + 1].Score

\* C40: in every state of the store, for every team and every user without a
\* team, the series of GetTeamScoreTimeSeries / GetUserScoreTimeSeries is
\* non-decreasing, has one point per distinct (user, challenge) pair with a
\* correct row, and ends at the score of the entry GetScoreboard gives for
\* it (0 for the empty series).
C40_SeriesMatchesScoreboard ==
    /\ \A t \in teams :
          LET series == GetTeamScoreTimeSeries(t.id)
              pairs == {<<u, c>> \in TeamMembers(t.id) \X ChalIds : c \in SolvedChalls(u)}
          IN /\ NonDecreasing(series)
             /\ Len(series) = Cardinality(pairs)
             /\ \E i \in DOMAIN GetScoreboard :
                   /\ GetScoreboard[i].id = t.id
                   /\ GetScoreboard[i].score = LastScore(series)
    /\ \A u \in SoloUsers :
          LET series == GetUserScoreTimeSeries(u)
          IN /\ NonDecreasing(series)
             /\ Len(series) = Cardinality(SolvedChalls(u))
             /\ \E i \in DOMAIN GetScoreboard :
                   /\ GetScoreboard[i].id = 0 - u
                   /\ GetScoreboard[i].score = LastScore(series)

\* a team and a user without a team hold a non-empty series each, both
\* ending at the score of their scoreboard entry
C40_Witness ==
    /\ \E t \in teams :
          /\ GetTeamScoreTimeSeries(t.id) # <<>>
          /\ TeamEntry(t).score = LastScore(GetTeamScoreTimeSeries(t.id))
    /\ \E u \in SoloUsers :
          /\ GetUserScoreTimeSeries(u) # <<>>
          /\ SoloEntry(u).score = LastScore(GetUserScoreTimeSeries(u))
====
